---- MODULE Spec2Model ----
(***************************************************************************)
(* A model of the carpool application of src/src/App.js: the document      *)
(* store (rides, rideRequests, wallets), each signed-in user's local       *)
(* replicas filled by the snapshot listeners, and the command handlers     *)
(* with their await points.                                                *)
(***************************************************************************)
EXTENDS Integers, Sequences, FiniteSets, Bags, TLC

\* ------------------------------------------------------------------ bounds
MaxRides    == 1    \* rides in the catalog
MaxRequests == 2    \* ride requests in the catalog
MaxCalls    == 2    \* handler invocations suspended at an await at once
MaxSeats    == 1    \* largest seat count entered in the post-ride form
MaxAmount   == 2    \* largest amount entered in the wallet form
MaxBalance  == 2    \* cap on the balances the model lets the wallets reach
MaxStrLen   == 2    \* longest string entered in a search or ride form
SeatFloor   == 1    \* no accept starts once a ride's seat count is -SeatFloor
RidePrice   == 1    \* the price per seat entered in the post-ride form
MaxStopLen  == 1    \* longest route stop typed into the search form
MaxMessages == 2    \* no message is sent to a thread that holds this many

\* ------------------------------------------------------------------- users
Drivers == {"d1"}
Riders  == {"r1", "r2"}
Users   == Drivers \cup Riders

\* currentUser.userType of a registered profile
userType(u) == IF u \in Drivers THEN "driver" ELSE "rider"

\* ----------------------------------------------------------------- strings
\* A string is a sequence of one-character strings.
Letters == {"a", "A", " "}

RECURSIVE StringsUpTo(_)
StringsUpTo(n) ==
  IF n = 0 THEN {<<>>}
  ELSE LET S == StringsUpTo(n - 1)
       IN  S \cup {Append(s, c) : s \in {t \in S : Len(t) = n - 1}, c \in Letters}

\* String.prototype.toLowerCase on one character
LowerChar(c) ==
  CASE c = "A" -> "a"
    [] c = "B" -> "b"
    [] c = "D" -> "d"
    [] c = "M" -> "m"
    [] c = "T" -> "t"
    [] OTHER   -> c

toLowerCase(s) == [i \in 1..Len(s) |-> LowerChar(s[i])]

\* String.prototype.includes: t occurs in s as a contiguous substring
includes(s, t) ==
  \E i \in 0..(Len(s) - Len(t)) : SubSeq(s, i + 1, i + Len(t)) = t

\* String.prototype.trim, as far as its truthiness goes: p.trim() is truthy
\* iff p holds a character that is not white space
trimTruthy(p) == \E i \in 1..Len(p) : p[i] # " "

\* route.filter(point => point.trim() !== '') and route.filter(p => p.trim())
RECURSIVE filterNonBlank(_)
filterNonBlank(s) ==
  IF s = <<>> THEN <<>>
  ELSE IF trimTruthy(Head(s)) THEN <<Head(s)>> \o filterNonBlank(Tail(s))
       ELSE filterNonBlank(Tail(s))

\* -------------------------------------------------------- route overlap
\* A route is a sequence of strings. A value that is not an array (a ride
\* record without a route) is written as the one-element sequence below, which
\* no route equals: its element is not a character of any string.
NotAnArray == << <<"undefined">> >>

\* Array.isArray
isArray(route) == route # NotAnArray

\* checkRouteOverlap testing only whether a point of route1 holds a point of
\* route2
checkRouteOverlapOneWay(route1, route2) ==
  IF ~isArray(route1) \/ ~isArray(route2) \/ Len(route1) = 0 \/ Len(route2) = 0
  THEN FALSE
  ELSE \E i \in 1..Len(route1) : \E j \in 1..Len(route2) :
         includes(toLowerCase(route1[i]), toLowerCase(route2[j]))

\* checkRouteOverlap comparing the points as they are written
checkRouteOverlapCaseSensitive(route1, route2) ==
  IF ~isArray(route1) \/ ~isArray(route2) \/ Len(route1) = 0 \/ Len(route2) = 0
  THEN FALSE
  ELSE \E i \in 1..Len(route1) : \E j \in 1..Len(route2) :
         includes(route1[i], route2[j]) \/ includes(route2[j], route1[i])

\* checkRouteOverlap without the Array.isArray checks
checkRouteOverlapNoArrayCheck(route1, route2) ==
  IF Len(route1) = 0 \/ Len(route2) = 0 THEN FALSE
  ELSE \E i \in 1..Len(route1) : \E j \in 1..Len(route2) :
         \/ includes(toLowerCase(route1[i]), toLowerCase(route2[j]))
         \/ includes(toLowerCase(route2[j]), toLowerCase(route1[i]))

checkRouteOverlap(route1, route2) ==
  IF ~isArray(route1) \/ ~isArray(route2) \/ Len(route1) = 0 \/ Len(route2) = 0
  THEN FALSE
  ELSE LET lowerRoute1 == [i \in 1..Len(route1) |-> toLowerCase(route1[i])]
           lowerRoute2 == [i \in 1..Len(route2) |-> toLowerCase(route2[i])]
       IN  \E i \in 1..Len(lowerRoute1) : \E j \in 1..Len(lowerRoute2) :
             \/ includes(lowerRoute1[i], lowerRoute2[j])
             \/ includes(lowerRoute2[j], lowerRoute1[i])

\* ---------------------------------------------------------------- state
VARIABLES
  rides,          \* store: collection public/data/rides, in creation order
  rideRequests,   \* store: collection public/data/rideRequests
  walletDocs,     \* store: users/{uid}/walletData/balance, per user
  pendingWrites,  \* store writes issued without await, not yet applied
  localRides,     \* per user: the rides state (useState, line 26)
  localRequests,  \* per user: the rideRequests state (line 27)
  localWallet,    \* per user: the wallet state's balance (line 28)
  searchQuery,    \* per user: SearchRides' searchQuery state (line 831)
  filteredRides,  \* per user: SearchRides' filteredRides state (line 832)
  amount,         \* per user: WalletView's amount state, as parseFloat reads it
  calls,          \* handler invocations suspended at an await
  shown,          \* the notification the last step showed (showMessage)
  threads,        \* store: collection public/data/messages, per thread id
  localMessages,  \* per user: the messages state (line 29), per thread id
  activeChat,     \* per user: the activeChat state (line 30)
  regData,        \* per user: Registration's regData state (line 185)
  userProfile,    \* store: users/{uid}/userProfile/data, per user
  currentUser,    \* per user: the currentUser state (line 23); userType (line 25) mirrors it
  currentView     \* per user: the currentView state (line 24)

vars == <<rides, rideRequests, walletDocs, pendingWrites, localRides,
          localRequests, localWallet, searchQuery, filteredRides, amount, calls,
          shown, threads, localMessages, activeChat, regData, userProfile,
          currentUser, currentView>>

storeVars  == <<rides, rideRequests, walletDocs, pendingWrites>>
searchVars == <<searchQuery, filteredRides, amount>>
chatVars   == <<threads, localMessages, activeChat>>
regVars    == <<regData, userProfile, currentUser, currentView>>

\* shown: who was shown which message, and by which handler
NoMessage == [user |-> "-", op |-> "-", msg |-> "-"]
showMessage(u, op, m) == [user |-> u, op |-> op, msg |-> m]

\* no thread id, no chat entry, no message
NoChatId == [kind |-> "none", rideId |-> 0, driverId |-> "-", riderId |-> "-"]
NoChat == [id |-> NoChatId, partnerId |-> "-"]
NoText == [senderId |-> "-", text |-> <<>>]

\* {}.type and the like: a field an object does not have
Undefined == <<"undefined">>

\* the vehicle of the empty registration form, and the {} a rider's profile gets
EmptyVehicle == [type |-> <<>>, color |-> <<>>, plate |-> <<>>]
EmptyObject == [type |-> Undefined, color |-> Undefined, plate |-> Undefined]

\* a profile document that does not exist
NoProfile == [exists |-> FALSE, name |-> <<>>, email |-> <<>>, phone |-> <<>>,
              userType |-> "", vehicle |-> EmptyObject, verificationStatus |-> "-"]

IdleCall == [op |-> "idle", pc |-> "-", user |-> "-", requestId |-> 0,
             rideId |-> 0, riderId |-> "-", price |-> 0, wallet |-> 0,
             read |-> 0, chat |-> NoChat, message |-> NoText,
             readExists |-> FALSE, readMessages |-> <<>>,
             profile |-> NoProfile]

\* calls is the bag of the suspended invocations; a handler that reaches an
\* await joins it, and leaves it when it returns
CanSuspend == BagCardinality(calls) < MaxCalls
suspend(call) == calls (+) SetToBag({call})
resume(call, next) == (calls (-) SetToBag({call})) (+) SetToBag({next})
return(call) == calls (-) SetToBag({call})
Suspended(op, pc) == {c \in BagToSet(calls) : c.op = op /\ c.pc = pc}

\* updateDoc(ref, {field: value}) on the document at index id of a collection
updateDoc(coll, id, field, value) ==
  [coll EXCEPT ![id] = [coll[id] EXCEPT ![field] = value]]

\* the indices of a sequence whose element satisfies a condition are written
\* inline as {i \in 1..Len(s) : ...}

\* ------------------------------------------------------- search (rider)
EmptyQuery == [from |-> <<>>, to |-> <<>>, route |-> << <<>> >>]

\* the predicate of rides.filter in handleSearch, comparing from and to
\* without lower-casing them
rideMatchesCaseSensitive(ride, query) ==
  LET fullSearchRoute ==
        filterNonBlank(<<query.from>> \o filterNonBlank(query.route) \o <<query.to>>)
  IN  /\ query.from # <<>> => includes(ride.from, query.from)
      /\ query.to # <<>> => includes(ride.to, query.to)
      /\ ride.availableSeats > 0
      /\ Len(fullSearchRoute) > 0 => checkRouteOverlap(ride.route, fullSearchRoute)

\* the predicate of rides.filter in handleSearch
rideMatches(ride, query) ==
  LET searchRoutePoints == filterNonBlank(query.route)
      fullSearchRoute   ==
        filterNonBlank(<<query.from>> \o searchRoutePoints \o <<query.to>>)
      fromMatch == IF query.from # <<>>
                   THEN includes(toLowerCase(ride.from), toLowerCase(query.from))
                   ELSE TRUE
      toMatch   == IF query.to # <<>>
                   THEN includes(toLowerCase(ride.to), toLowerCase(query.to))
                   ELSE TRUE
      seatsAvailable == ride.availableSeats > 0
      routeMatch == IF Len(fullSearchRoute) > 0
                    THEN checkRouteOverlap(ride.route, fullSearchRoute)
                    ELSE TRUE
  IN  fromMatch /\ toMatch /\ seatsAvailable /\ routeMatch

RECURSIVE filterRides(_, _)
filterRides(rs, query) ==
  IF rs = <<>> THEN <<>>
  ELSE IF rideMatches(Head(rs), query)
       THEN <<Head(rs)>> \o filterRides(Tail(rs), query)
       ELSE filterRides(Tail(rs), query)

\* handleSearch: the new filteredRides for the local rides and the query
handleSearch(rs, query) == filterRides(rs, query)

\* ----------------------------------------------------- snapshot listeners
\* A replica keeps, of every document, the fields that some handler of its
\* user reads; a field that is only rendered is kept at a fixed value. No
\* handler reads a ride's status, and a driver's handlers read of a ride only
\* its id, driverId and pricePerSeat.
rideView(u, ride) ==
  IF userType(u) = "driver"
  THEN [ride EXCEPT !.status = "-", !.availableSeats = 0]
  ELSE [ride EXCEPT !.status = "-"]

\* snapshot.docs.map(doc => ({id: doc.id, ...doc.data()})) of the rides
fetchedRides(u) == [i \in 1..Len(rides) |-> rideView(u, rides[i])]

\* A rider's handlers read only the rider's own requests (riderId ===
\* currentUser.id in requestRide, MyRequests and the chat list); a driver's
\* read the requests of the driver's rides; the chat list also reads the
\* requests on which its user initiated contact.
RECURSIVE requestsRead(_, _)
requestsRead(u, reqs) ==
  IF reqs = <<>> THEN <<>>
  ELSE IF \/ Head(reqs).riderId = u
          \/ Head(reqs).driverId = u
          \/ Head(reqs).contactInitiatedBy = u
       THEN <<Head(reqs)>> \o requestsRead(u, Tail(reqs))
       ELSE requestsRead(u, Tail(reqs))

\* snapshot.docs.map(...) of the ride requests
fetchedRequests(u) == requestsRead(u, rideRequests)

\* onSnapshot(ridesQuery): the local rides are replaced by the collection;
\* SearchRides' effect on [rides] runs handleSearch again
DeliverRides(u) ==
  /\ localRides[u] # fetchedRides(u)
  /\ localRides' = [localRides EXCEPT ![u] = fetchedRides(u)]
  /\ filteredRides' = [filteredRides EXCEPT ![u] = handleSearch(fetchedRides(u), searchQuery[u])]
  /\ shown' = NoMessage
  /\ UNCHANGED <<storeVars, localRequests, localWallet, searchQuery, amount, calls>>
  /\ UNCHANGED chatVars
  /\ UNCHANGED regVars

\* onSnapshot(requestsQuery)
DeliverRequests(u) ==
  /\ localRequests[u] # fetchedRequests(u)
  /\ localRequests' = [localRequests EXCEPT ![u] = fetchedRequests(u)]
  /\ shown' = NoMessage
  /\ UNCHANGED <<storeVars, localRides, localWallet, searchVars, calls>>
  /\ UNCHANGED chatVars
  /\ UNCHANGED regVars

InitWalletWrite(u) == [kind |-> "initWallet", id |-> 0, user |-> u]
CompleteRequestWrite(q) == [kind |-> "completeRequest", id |-> q, user |-> "-"]

\* onSnapshot(walletRef): an existing record replaces the local wallet; a
\* missing one is initialised by a setDoc that is not awaited
DeliverWallet(u) ==
  /\ IF walletDocs[u].exists
     THEN /\ localWallet[u] # walletDocs[u].balance
          /\ localWallet' = [localWallet EXCEPT ![u] = walletDocs[u].balance]
          /\ UNCHANGED pendingWrites
     ELSE /\ InitWalletWrite(u) \notin pendingWrites
          /\ pendingWrites' = pendingWrites \cup {InitWalletWrite(u)}
          /\ localWallet' = [localWallet EXCEPT ![u] = 0]
  /\ shown' = NoMessage
  /\ UNCHANGED <<rides, rideRequests, walletDocs, localRides, localRequests,
                 searchVars, calls>>
  /\ UNCHANGED chatVars
  /\ UNCHANGED regVars

\* a write that was issued without await reaches the store
ApplyPendingWrite(w) ==
  /\ w \in pendingWrites
  /\ pendingWrites' = pendingWrites \ {w}
  /\ IF w.kind = "initWallet"
     THEN /\ walletDocs' = [walletDocs EXCEPT ![w.user] = [exists |-> TRUE, balance |-> 0]]
          /\ UNCHANGED rideRequests
     ELSE /\ rideRequests' = updateDoc(rideRequests, w.id, "status", "completed")
          /\ UNCHANGED walletDocs
  /\ shown' = NoMessage
  /\ UNCHANGED <<rides, localRides, localRequests, localWallet, searchVars, calls>>
  /\ UNCHANGED chatVars
  /\ UNCHANGED regVars

\* ------------------------------------------------------ post ride (driver)
\* the ride handlePostRide builds from the form
newRide(u, form, id) ==
  [id |-> id, driverId |-> u, from |-> form.from, to |-> form.to,
   availableSeats |-> form.availableSeats, pricePerSeat |-> form.pricePerSeat,
   route |-> <<form.from>> \o filterNonBlank(form.route) \o <<form.to>>,
   status |-> "active"]

\* the form passes handlePostRide's first check
postRideFilled(form) ==
  /\ form.from # <<>>
  /\ form.to # <<>>
  /\ form.startTime # <<>>
  /\ form.availableSeats # 0
  /\ form.pricePerSeat # 0

handlePostRide(u, form) ==
  /\ IF ~postRideFilled(form)
     THEN /\ shown' = showMessage(u, "handlePostRide", "Please fill in all required ride details.")
          /\ UNCHANGED <<rides, currentView>>
     ELSE IF userType(u) # "driver"
     THEN /\ shown' = showMessage(u, "handlePostRide", "Only drivers can post rides.")
          /\ UNCHANGED <<rides, currentView>>
     ELSE /\ Len(rides) < MaxRides
          /\ rides' = Append(rides, newRide(u, form, Len(rides) + 1))
          /\ shown' = showMessage(u, "handlePostRide", "Ride posted successfully!")
          /\ currentView' = [currentView EXCEPT ![u] = "myRides"]
  /\ UNCHANGED <<rideRequests, walletDocs, pendingWrites, localRides,
                 localRequests, localWallet, searchVars, calls>>
  /\ UNCHANGED chatVars
  /\ UNCHANGED <<regData, userProfile, currentUser>>

\* --------------------------------------------------- request ride (rider)
\* rides.find(r => r.id === rideId): the indices of the local matches
localRideIdx(u, rideId) == {i \in 1..Len(localRides[u]) : localRides[u][i].id = rideId}

\* the duplicate guard of requestRide matching a request in any status
existingRequestAnyStatus(reqs, u, rideId) ==
  \E i \in 1..Len(reqs) :
    /\ reqs[i].rideId = rideId
    /\ reqs[i].riderId = u

\* the duplicate guard of requestRide: rideRequests.find(...) finds a request
existingRequestIn(reqs, u, rideId) ==
  \E i \in 1..Len(reqs) :
    /\ reqs[i].rideId = rideId
    /\ reqs[i].riderId = u
    /\ reqs[i].status \in {"pending", "accepted"}

\* the duplicate guard on the local requests
existingRequest(u, rideId) == existingRequestIn(localRequests[u], u, rideId)

\* the request requestRide builds; it has no contactInitiatedBy field ("-")
newRequest(u, ride, id) ==
  [id |-> id, rideId |-> ride.id, riderId |-> u, driverId |-> ride.driverId,
   price |-> ride.pricePerSeat, status |-> "pending",
   contactInitiatedBy |-> "-"]

requestRide(u, rideId) ==
  /\ IF userType(u) # "rider"
     THEN /\ shown' = showMessage(u, "requestRide", "Only riders can request rides.")
          /\ UNCHANGED rideRequests
     ELSE IF localRideIdx(u, rideId) = {}
     THEN /\ shown' = showMessage(u, "requestRide", "Ride not found.")
          /\ UNCHANGED rideRequests
     ELSE LET ride == localRides[u][CHOOSE i \in localRideIdx(u, rideId) : TRUE]
          IN  IF ride.availableSeats <= 0
              THEN /\ shown' = showMessage(u, "requestRide", "No seats available for this ride.")
                   /\ UNCHANGED rideRequests
              ELSE IF existingRequest(u, rideId)
              THEN /\ shown' = showMessage(u, "requestRide", "You already have a pending or accepted request for this ride.")
                   /\ UNCHANGED rideRequests
              ELSE /\ Len(rideRequests) < MaxRequests
                   /\ rideRequests' = Append(rideRequests,
                                             newRequest(u, ride, Len(rideRequests) + 1))
                   /\ shown' = showMessage(u, "requestRide", "Ride request sent successfully! Driver will be notified.")
  /\ UNCHANGED <<rides, walletDocs, pendingWrites, localRides, localRequests,
                 localWallet, searchVars, calls>>
  /\ UNCHANGED chatVars
  /\ UNCHANGED regVars

\* ------------------------------------------------------ my rides (driver)
\* MyRides renders, for each local ride of the driver, the local requests of
\* that ride; the buttons of a request depend on its local status
driverRides(u) == {i \in 1..Len(localRides[u]) : localRides[u][i].driverId = u}

requestsShown(u, status) ==
  {<<i, j>> \in driverRides(u) \X (1..Len(localRequests[u])) :
     /\ localRequests[u][j].rideId = localRides[u][i].id
     /\ localRequests[u][j].status = status}

\* acceptRequest, up to its first await: the request's status is written
acceptRequest(u, requestId, rideId) ==
  /\ CanSuspend
  /\ rides[rideId].availableSeats > 0 - SeatFloor
  /\ rideRequests' = updateDoc(rideRequests, requestId, "status", "accepted")
  /\ calls' = suspend([IdleCall EXCEPT !.op = "acceptRequest", !.pc = "getRide",
                                        !.user = u, !.requestId = requestId,
                                        !.rideId = rideId])
  /\ shown' = NoMessage
  /\ UNCHANGED <<rides, walletDocs, pendingWrites, localRides, localRequests,
                 localWallet, searchVars>>
  /\ UNCHANGED chatVars
  /\ UNCHANGED regVars

\* the Accept button of a request shown as pending
AcceptClick(u) ==
  \E p \in requestsShown(u, "pending") :
    acceptRequest(u, localRequests[u][p[2]].id, localRides[u][p[1]].id)

\* acceptRequest: getDoc(rideRef) returns
acceptGetRide(c) ==
  /\ c \in Suspended("acceptRequest", "getRide")
  /\ calls' = resume(c, [c EXCEPT !.pc = "updateRide",
                                      !.read = rides[c.rideId].availableSeats])
  /\ shown' = NoMessage
  /\ UNCHANGED <<storeVars, localRides, localRequests, localWallet, searchVars>>
  /\ UNCHANGED chatVars
  /\ UNCHANGED regVars

\* the seat count acceptRequest writes back
seatsAfterAccept(currentSeats) == currentSeats - 1

\* acceptRequest: updateDoc(rideRef, {availableSeats}) returns
acceptUpdateRide(c) ==
  /\ c \in Suspended("acceptRequest", "updateRide")
  /\ rides' = updateDoc(rides, c.rideId, "availableSeats",
                        seatsAfterAccept(c.read))
  /\ calls' = return(c)
  /\ shown' = showMessage(c.user, "acceptRequest", "Ride request accepted!")
  /\ UNCHANGED <<rideRequests, walletDocs, pendingWrites, localRides,
                 localRequests, localWallet, searchVars>>
  /\ UNCHANGED chatVars
  /\ UNCHANGED regVars

rejectRequest(u, requestId) ==
  /\ rideRequests' = updateDoc(rideRequests, requestId, "status", "rejected")
  /\ shown' = showMessage(u, "rejectRequest", "Ride request rejected.")
  /\ UNCHANGED <<rides, walletDocs, pendingWrites, localRides, localRequests,
                 localWallet, searchVars, calls>>
  /\ UNCHANGED chatVars
  /\ UNCHANGED regVars

\* the Reject button of a request shown as pending
RejectClick(u) ==
  \E p \in requestsShown(u, "pending") :
    rejectRequest(u, localRequests[u][p[2]].id)

\* completeRide, up to its first await: the ride's status is written; the
\* handler's closure holds the wallet state of the render it was made in
completeRide(u, rideId, riderId, price) ==
  /\ CanSuspend
  /\ localWallet[u] + price <= MaxBalance
  /\ walletDocs[riderId].balance - price >= 0 - MaxBalance
  /\ rides' = updateDoc(rides, rideId, "status", "completed")
  /\ calls' = suspend([IdleCall EXCEPT !.op = "completeRide", !.pc = "getDocs",
                                        !.user = u, !.rideId = rideId,
                                        !.riderId = riderId, !.price = price,
                                        !.wallet = localWallet[u]])
  /\ shown' = NoMessage
  /\ UNCHANGED <<rideRequests, walletDocs, pendingWrites, localRides,
                 localRequests, localWallet, searchVars>>
  /\ UNCHANGED chatVars
  /\ UNCHANGED regVars

\* the Complete button of a request shown as accepted
CompleteClick(u) ==
  \E p \in requestsShown(u, "accepted") :
    completeRide(u, localRides[u][p[1]].id, localRequests[u][p[2]].riderId,
                 localRides[u][p[1]].pricePerSeat)

\* the documents of completeRide's query on rideRequests
riderRequestSnap(rideId, riderId) ==
  {q \in 1..Len(rideRequests) :
     /\ rideRequests[q].rideId = rideId
     /\ rideRequests[q].riderId = riderId
     /\ rideRequests[q].status = "accepted"}

\* completeRide: getDocs returns; forEach issues one update per document and
\* awaits none of them
completeGetDocs(c) ==
  /\ c \in Suspended("completeRide", "getDocs")
  /\ pendingWrites' = pendingWrites \cup
       {CompleteRequestWrite(q) : q \in riderRequestSnap(c.rideId, c.riderId)}
  /\ calls' = resume(c, [c EXCEPT !.pc = "creditDriver"])
  /\ shown' = NoMessage
  /\ UNCHANGED <<rides, rideRequests, walletDocs, localRides, localRequests,
                 localWallet, searchVars>>
  /\ UNCHANGED chatVars
  /\ UNCHANGED regVars

\* the balance completeRide writes to the driver's wallet
driverBalanceAfter(closureBalance, price) == closureBalance + price

\* completeRide: updateDoc(driverWalletRef) returns, or throws on a missing
\* wallet record
completeCreditDriver(c) ==
  /\ c \in Suspended("completeRide", "creditDriver")
  /\ IF walletDocs[c.user].exists
     THEN /\ walletDocs' = [walletDocs EXCEPT ![c.user].balance =
                              driverBalanceAfter(c.wallet, c.price)]
          /\ calls' = resume(c, [c EXCEPT !.pc = "getRiderWallet"])
          /\ shown' = NoMessage
     ELSE /\ UNCHANGED walletDocs
          /\ calls' = return(c)
          /\ shown' = showMessage(c.user, "completeRide", "Failed to complete ride.")
  /\ UNCHANGED <<rides, rideRequests, pendingWrites, localRides, localRequests,
                 localWallet, searchVars>>
  /\ UNCHANGED chatVars
  /\ UNCHANGED regVars

\* completeRide: getDoc(riderWalletRef) returns
completeGetRiderWallet(c) ==
  /\ c \in Suspended("completeRide", "getRiderWallet")
  /\ IF walletDocs[c.riderId].exists
     THEN /\ calls' = resume(c, [c EXCEPT !.pc = "debitRider",
                                              !.read = walletDocs[c.riderId].balance])
          /\ shown' = NoMessage
     ELSE /\ calls' = return(c)
          /\ shown' = showMessage(c.user, "completeRide", "Ride marked as completed and payment processed!")
  /\ UNCHANGED <<storeVars, localRides, localRequests, localWallet, searchVars>>
  /\ UNCHANGED chatVars
  /\ UNCHANGED regVars

\* completeRide: updateDoc(riderWalletRef) returns
completeDebitRider(c) ==
  /\ c \in Suspended("completeRide", "debitRider")
  /\ walletDocs' = [walletDocs EXCEPT ![c.riderId].balance =
                      c.read - c.price]
  /\ calls' = return(c)
  /\ shown' = showMessage(c.user, "completeRide", "Ride marked as completed and payment processed!")
  /\ UNCHANGED <<rides, rideRequests, pendingWrites, localRides, localRequests,
                 localWallet, searchVars>>
  /\ UNCHANGED chatVars
  /\ UNCHANGED regVars

\* --------------------------------------------------- my requests (rider)
riderRequests(u) == {j \in 1..Len(localRequests[u]) : localRequests[u][j].riderId = u}

cancelRequest(u, requestId) ==
  /\ rideRequests' = updateDoc(rideRequests, requestId, "status", "cancelled")
  /\ shown' = showMessage(u, "cancelRequest", "Ride request cancelled.")
  /\ UNCHANGED <<rides, walletDocs, pendingWrites, localRides, localRequests,
                 localWallet, searchVars, calls>>
  /\ UNCHANGED chatVars
  /\ UNCHANGED regVars

\* the Cancel Request button of an own request shown as pending
CancelClick(u) ==
  \E j \in riderRequests(u) :
    /\ localRequests[u][j].status = "pending"
    /\ cancelRequest(u, localRequests[u][j].id)

\* --------------------------------------------------------------- chat list
\* `ride-${ride.id}-rider-${riderId}`
rideChatId(rideId, riderId) ==
  [kind |-> "ride", rideId |-> rideId, driverId |-> "-", riderId |-> riderId]

\* `initial-contact-driver-${currentUser.id}-rider-${riderId}`
contactChatId(u, riderId) ==
  [kind |-> "initial-contact", rideId |-> 0, driverId |-> u, riderId |-> riderId]

\* an entry of the chat list: its thread id and the partner
chatEntry(chatId, partnerId) == [id |-> chatId, partnerId |-> partnerId]

\* the entries a driver's ride gets: one per accepted request on it
RECURSIVE acceptedChats(_, _)
acceptedChats(ride, reqs) ==
  IF reqs = <<>> THEN <<>>
  ELSE (IF Head(reqs).rideId = ride.id /\ Head(reqs).status = "accepted"
        THEN <<chatEntry(rideChatId(ride.id, Head(reqs).riderId), Head(reqs).riderId)>>
        ELSE <<>>) \o acceptedChats(ride, Tail(reqs))

RECURSIVE driverChats(_, _, _)
driverChats(u, rs, reqs) ==
  IF rs = <<>> THEN <<>>
  ELSE (IF Head(rs).driverId = u THEN acceptedChats(Head(rs), reqs) ELSE <<>>)
       \o driverChats(u, Tail(rs), reqs)

\* the rider's entries without the test that the ride was found
RECURSIVE riderChatsAnyRide(_, _, _)
riderChatsAnyRide(u, rs, reqs) ==
  IF reqs = <<>> THEN <<>>
  ELSE LET request == Head(reqs)
       IN  (IF request.riderId = u /\ request.status = "accepted"
            THEN <<chatEntry(rideChatId(request.rideId, request.riderId), request.driverId)>>
            ELSE <<>>) \o riderChatsAnyRide(u, rs, Tail(reqs))

\* the entries of a rider: one per own accepted request whose ride is found
RECURSIVE riderChats(_, _, _)
riderChats(u, rs, reqs) ==
  IF reqs = <<>> THEN <<>>
  ELSE LET request == Head(reqs)
           found == {i \in 1..Len(rs) : rs[i].id = request.rideId}
       IN  (IF request.riderId = u /\ request.status = "accepted" /\ found # {}
            THEN LET ride == rs[CHOOSE i \in found : \A k \in found : i <= k]
                 IN  <<chatEntry(rideChatId(ride.id, request.riderId), ride.driverId)>>
            ELSE <<>>) \o riderChats(u, rs, Tail(reqs))

\* the entries of the requests in status searching that the user contacted
RECURSIVE contactChats(_, _)
contactChats(u, reqs) ==
  IF reqs = <<>> THEN <<>>
  ELSE (IF Head(reqs).status = "searching" /\ Head(reqs).contactInitiatedBy = u
        THEN <<chatEntry(contactChatId(u, Head(reqs).riderId), Head(reqs).riderId)>>
        ELSE <<>>) \o contactChats(u, Tail(reqs))

\* the chat list MessagingView builds from the rides and the requests
chatListOf(u, rs, reqs) ==
  (IF userType(u) = "driver" THEN driverChats(u, rs, reqs) ELSE <<>>)
  \o (IF userType(u) = "rider" THEN riderChats(u, rs, reqs) ELSE <<>>)
  \o contactChats(u, reqs)

chatList(u) == chatListOf(u, localRides[u], localRequests[u])

\* ---------------------------------------------------------------- messages
\* the thread ids the rides and riders of the model give
ChatIds ==
  {rideChatId(i, r) : i \in 1..MaxRides, r \in Riders}
  \cup {contactChatId(d, r) : d \in Drivers, r \in Riders}

NoThread == [exists |-> FALSE, participants |-> {}, messages |-> <<>>]
NoLocalThread == [present |-> FALSE, messages |-> <<>>]

chatInit ==
  /\ threads = [id \in ChatIds |-> NoThread]
  /\ localMessages = [u \in Users |-> [id \in ChatIds |-> NoLocalThread]]
  /\ activeChat = [u \in Users |-> NoChat]

\* the message fields typed: empty, blank, or a text
MessageTexts == {<<>>, <<" ">>, <<"a">>}

\* allMessages of the messages listener: the threads whose participants
\* include the user, with doc.data().messages || []
fetchedMessages(u) ==
  [id \in ChatIds |->
     IF threads[id].exists /\ u \in threads[id].participants
     THEN [present |-> TRUE, messages |-> threads[id].messages]
     ELSE NoLocalThread]

\* onSnapshot(messagesQuery)
DeliverMessages(u) ==
  /\ localMessages[u] # fetchedMessages(u)
  /\ localMessages' = [localMessages EXCEPT ![u] = fetchedMessages(u)]
  /\ shown' = NoMessage
  /\ UNCHANGED regVars
  /\ UNCHANGED <<storeVars, localRides, localRequests, localWallet, searchVars,
                 calls, threads, activeChat>>

\* the record startChat and sendMessage create for a missing thread
newThread(u, partnerId, messages) ==
  [exists |-> TRUE, participants |-> {u, partnerId}, messages |-> messages]

\* startChat(ride), up to its await getDoc(chatDocRef)
startChat(u, ride) ==
  /\ CanSuspend
  /\ calls' = suspend([IdleCall EXCEPT !.op = "startChat", !.pc = "getDoc",
                                       !.user = u, !.rideId = ride.id,
                                       !.chat = chatEntry(rideChatId(ride.id, u),
                                                          ride.driverId)])
  /\ shown' = NoMessage
  /\ UNCHANGED regVars
  /\ UNCHANGED <<storeVars, localRides, localRequests, localWallet, searchVars,
                 chatVars>>

\* the chat button of a ride in the search results
StartChatClick(u) ==
  \E i \in 1..Len(filteredRides[u]) : startChat(u, filteredRides[u][i])

\* startChat: getDoc returns; an existing thread is opened
startGetDoc(c) ==
  /\ c \in Suspended("startChat", "getDoc")
  /\ IF threads[c.chat.id].exists
     THEN /\ calls' = return(c)
          /\ activeChat' = [activeChat EXCEPT ![c.user] = c.chat]
          /\ currentView' = [currentView EXCEPT ![c.user] = "messages"]
     ELSE /\ calls' = resume(c, [c EXCEPT !.pc = "setDoc"])
          /\ UNCHANGED <<activeChat, currentView>>
  /\ shown' = NoMessage
  /\ UNCHANGED <<regData, userProfile, currentUser>>
  /\ UNCHANGED <<storeVars, localRides, localRequests, localWallet, searchVars,
                 threads, localMessages>>

\* startChat: setDoc of the new thread returns, and the thread is opened
startSetDoc(c) ==
  /\ c \in Suspended("startChat", "setDoc")
  /\ threads' = [threads EXCEPT ![c.chat.id] = newThread(c.user, c.chat.partnerId, <<>>)]
  /\ activeChat' = [activeChat EXCEPT ![c.user] = c.chat]
  /\ currentView' = [currentView EXCEPT ![c.user] = "messages"]
  /\ calls' = return(c)
  /\ shown' = NoMessage
  /\ UNCHANGED <<regData, userProfile, currentUser>>
  /\ UNCHANGED <<storeVars, localRides, localRequests, localWallet, searchVars,
                 localMessages>>

\* startChat: the awaited getDoc or setDoc rejects. startChat has no try and
\* no catch: the rejection leaves the handler, the thread is not opened and
\* nothing is shown
startChatFails(c) ==
  /\ c \in Suspended("startChat", "getDoc") \cup Suspended("startChat", "setDoc")
  /\ calls' = return(c)
  /\ shown' = NoMessage
  /\ UNCHANGED regVars
  /\ UNCHANGED <<storeVars, localRides, localRequests, localWallet, searchVars,
                 chatVars>>

\* a click on an entry of the chat list: setActiveChat(chat)
selectChat(u) ==
  /\ \E i \in 1..Len(chatList(u)) :
       /\ activeChat[u] # chatList(u)[i]
       /\ activeChat' = [activeChat EXCEPT ![u] = chatList(u)[i]]
  /\ shown' = NoMessage
  /\ UNCHANGED regVars
  /\ UNCHANGED <<storeVars, localRides, localRequests, localWallet, searchVars,
                 calls, threads, localMessages>>

\* sendMessage with the typed text, up to its await getDoc(chatDocRef)
sendMessage(u, text) ==
  /\ IF ~trimTruthy(text) \/ activeChat[u] = NoChat
     THEN /\ shown' = showMessage(u, "sendMessage", "Message cannot be empty.")
          /\ UNCHANGED calls
     ELSE /\ CanSuspend
          /\ Len(threads[activeChat[u].id].messages) < MaxMessages
          /\ calls' = suspend([IdleCall EXCEPT !.op = "sendMessage", !.pc = "getDoc",
                                               !.user = u, !.chat = activeChat[u],
                                               !.message = [senderId |-> u,
                                                            text |-> text]])
          /\ shown' = NoMessage
  /\ UNCHANGED regVars
  /\ UNCHANGED <<storeVars, localRides, localRequests, localWallet, searchVars,
                 chatVars>>

\* sendMessage: getDoc returns the thread's snapshot
sendGetDoc(c) ==
  /\ c \in Suspended("sendMessage", "getDoc")
  /\ calls' = resume(c, [c EXCEPT !.pc = "write",
                                  !.readExists = threads[c.chat.id].exists,
                                  !.readMessages = threads[c.chat.id].messages])
  /\ shown' = NoMessage
  /\ UNCHANGED regVars
  /\ UNCHANGED <<storeVars, localRides, localRequests, localWallet, searchVars,
                 chatVars>>

\* updatedMessages of sendMessage: the list read with the message appended
\* when the thread existed, and the initial empty list when it did not
updatedMessages(readExists, readMessages, message) ==
  IF readExists THEN Append(readMessages, message) ELSE <<>>

\* sendMessage: updateDoc of the list, or setDoc of a new thread, returns;
\* then the local messages get updatedMessages under the thread id
sendWrite(c) ==
  /\ c \in Suspended("sendMessage", "write")
  /\ threads' = [threads EXCEPT ![c.chat.id] =
                   IF c.readExists
                   THEN [@ EXCEPT !.messages = Append(c.readMessages, c.message)]
                   ELSE newThread(c.user, c.chat.partnerId, <<c.message>>)]
  /\ localMessages' = [localMessages EXCEPT ![c.user][c.chat.id] =
                         [present |-> TRUE,
                          messages |-> updatedMessages(c.readExists, c.readMessages,
                                                       c.message)]]
  /\ calls' = return(c)
  /\ shown' = NoMessage
  /\ UNCHANGED regVars
  /\ UNCHANGED <<storeVars, localRides, localRequests, localWallet, searchVars,
                 activeChat>>

\* sendMessage: the awaited getDoc, updateDoc or setDoc rejects, and the catch
\* block shows the failure
sendMessageFails(c) ==
  /\ c \in Suspended("sendMessage", "getDoc") \cup Suspended("sendMessage", "write")
  /\ calls' = return(c)
  /\ shown' = showMessage(c.user, "sendMessage",
                          "Failed to send message. Please try again.")
  /\ UNCHANGED regVars
  /\ UNCHANGED <<storeVars, localRides, localRequests, localWallet, searchVars,
                 chatVars>>

\* ------------------------------------------------------------ registration
\* what is typed into a text field of the registration form: nothing or a text
RegTexts == {<<>>, <<"a">>}

\* the initial regData of the Registration component
EmptyRegData ==
  [name |-> <<>>, email |-> <<>>, phone |-> <<>>, userType |-> "",
   vehicle |-> EmptyVehicle, licenseUploaded |-> FALSE, idUploaded |-> FALSE]

\* currentUser of a signed-in user without a profile: {id, userType: ''}
NewUser == [userType |-> "", verificationStatus |-> "-"]

\* the profile of a user who registered earlier
registeredProfile(u) ==
  [exists |-> TRUE, name |-> <<"a">>, email |-> <<"a">>, phone |-> <<"a">>,
   userType |-> userType(u),
   vehicle |-> IF userType(u) = "driver"
               THEN [type |-> <<"a">>, color |-> <<"a">>, plate |-> <<"a">>]
               ELSE EmptyObject,
   verificationStatus |-> "pending"]

\* the users of the ride scenarios are registered and at the home view
regInit ==
  /\ regData = [u \in Users |-> EmptyRegData]
  /\ userProfile = [u \in Users |-> registeredProfile(u)]
  /\ currentUser = [u \in Users |->
                      [userType |-> userType(u), verificationStatus |-> "pending"]]
  /\ currentView = [u \in Users |-> "home"]

\* the first test of handleRegistration: !name || !email || !phone || !userType
requiredFilled(rd) ==
  rd.name # <<>> /\ rd.email # <<>> /\ rd.phone # <<>> /\ rd.userType # ""

\* the driver's test without the license flag
vehicleFilledNoLicense(rd) ==
  rd.vehicle.type # <<>> /\ rd.vehicle.color # <<>> /\ rd.vehicle.plate # <<>>

\* the driver's test: vehicle type, color, plate and licenseUploaded
vehicleFilled(rd) ==
  /\ rd.vehicle.type # <<>> /\ rd.vehicle.color # <<>> /\ rd.vehicle.plate # <<>>
  /\ rd.licenseUploaded

\* the document handleRegistration writes
profileOf(rd) ==
  [exists |-> TRUE, name |-> rd.name, email |-> rd.email, phone |-> rd.phone,
   userType |-> rd.userType,
   vehicle |-> IF rd.userType = "driver" THEN rd.vehicle ELSE EmptyObject,
   verificationStatus |-> "pending"]

\* onChange of the name, email, phone inputs and of the role radio buttons
setRegData(u, field, value) ==
  /\ currentView[u] = "register"
  /\ regData[u][field] # value
  /\ regData' = [regData EXCEPT ![u][field] = value]
  /\ shown' = NoMessage
  /\ UNCHANGED <<storeVars, localRides, localRequests, localWallet, searchVars,
                 calls, chatVars, userProfile, currentUser, currentView>>

\* onChange of a vehicle input; the inputs are rendered for the role driver
setRegVehicle(u, field, value) ==
  /\ currentView[u] = "register"
  /\ regData[u].userType = "driver"
  /\ regData[u].vehicle[field] # value
  /\ regData' = [regData EXCEPT ![u].vehicle[field] = value]
  /\ shown' = NoMessage
  /\ UNCHANGED <<storeVars, localRides, localRequests, localWallet, searchVars,
                 calls, chatVars, userProfile, currentUser, currentView>>

\* the upload buttons toggle their flag: the license for the role driver, the
\* id for the role rider
toggleUploaded(u) ==
  /\ currentView[u] = "register"
  /\ regData[u].userType \in {"driver", "rider"}
  /\ regData' = IF regData[u].userType = "driver"
                THEN [regData EXCEPT ![u].licenseUploaded = ~@]
                ELSE [regData EXCEPT ![u].idUploaded = ~@]
  /\ shown' = NoMessage
  /\ UNCHANGED <<storeVars, localRides, localRequests, localWallet, searchVars,
                 calls, chatVars, userProfile, currentUser, currentView>>

\* handleRegistration up to its await: the three tests, then setDoc is issued
handleRegistration(u) ==
  /\ currentView[u] = "register"
  /\ LET rd == regData[u]
     IN  IF ~requiredFilled(rd)
         THEN /\ shown' = showMessage(u, "handleRegistration",
                                      "Please fill in all required fields.")
              /\ UNCHANGED calls
         ELSE IF rd.userType = "driver" /\ ~vehicleFilled(rd)
         THEN /\ shown' = showMessage(u, "handleRegistration",
                            "Please provide all vehicle details and upload your driver's license.")
              /\ UNCHANGED calls
         ELSE IF rd.userType = "rider" /\ ~rd.idUploaded
         THEN /\ shown' = showMessage(u, "handleRegistration", "Please upload a valid ID.")
              /\ UNCHANGED calls
         ELSE /\ CanSuspend
              /\ calls' = suspend([IdleCall EXCEPT !.op = "register", !.pc = "setDoc",
                                                   !.user = u, !.profile = profileOf(rd)])
              /\ shown' = NoMessage
  /\ UNCHANGED <<storeVars, localRides, localRequests, localWallet, searchVars,
                 chatVars, regVars>>

\* handleRegistration after setDoc: the profile is stored, the user is set
\* and the home view is opened
registerSetDoc(c) ==
  /\ c \in Suspended("register", "setDoc")
  /\ userProfile' = [userProfile EXCEPT ![c.user] = c.profile]
  /\ currentUser' = [currentUser EXCEPT ![c.user] =
                       [userType |-> c.profile.userType,
                        verificationStatus |-> "pending"]]
  /\ currentView' = [currentView EXCEPT ![c.user] = "home"]
  /\ calls' = return(c)
  /\ shown' = showMessage(c.user, "handleRegistration",
                          "Registration successful! Your profile is pending verification.")
  /\ UNCHANGED <<storeVars, localRides, localRequests, localWallet, searchVars,
                 chatVars, regData>>

\* handleRegistration when setDoc rejects: the catch block shows the failure
registerFails(c) ==
  /\ c \in Suspended("register", "setDoc")
  /\ calls' = return(c)
  /\ shown' = showMessage(c.user, "handleRegistration",
                          "Registration failed. Please try again.")
  /\ UNCHANGED <<storeVars, localRides, localRequests, localWallet, searchVars,
                 chatVars, regVars>>

\* ----------------------------------------------------- sign-out and sign-in
\* currentUser after Sign Out: null, which has no userType to read
NullUser == [userType |-> "", verificationStatus |-> "null"]

\* the Sign Out button of the navigation bar, which is rendered for a
\* currentUser with a userType. auth.signOut() makes onAuthStateChanged run
\* with no user, and that callback signs in again; userId keeps its value,
\* because setUserId is called only for a user
signOut(u) ==
  /\ currentUser[u].userType # ""
  /\ CanSuspend
  /\ calls' = suspend([IdleCall EXCEPT !.op = "onAuthStateChanged", !.pc = "signIn",
                                       !.user = u])
  /\ currentUser' = [currentUser EXCEPT ![u] = NullUser]
  /\ currentView' = [currentView EXCEPT ![u] = "login"]
  /\ shown' = showMessage(u, "signOut", "You have been signed out.")
  /\ UNCHANGED <<storeVars, localRides, localRequests, localWallet, searchVars,
                 chatVars, regData, userProfile>>

\* signInWithCustomToken returns: onAuthStateChanged runs with the user of the
\* token, sets userId and awaits getDoc of the profile
authSignedIn(c) ==
  /\ c \in Suspended("onAuthStateChanged", "signIn")
  /\ calls' = resume(c, [c EXCEPT !.pc = "getDoc"])
  /\ shown' = NoMessage
  /\ UNCHANGED <<storeVars, localRides, localRequests, localWallet, searchVars,
                 chatVars, regVars>>

\* onAuthStateChanged after getDoc: a user with a profile is taken to the home
\* view, a user without one to the registration view
authGetDoc(c) ==
  /\ c \in Suspended("onAuthStateChanged", "getDoc")
  /\ IF userProfile[c.user].exists
     THEN /\ currentUser' = [currentUser EXCEPT ![c.user] =
                               [userType |-> userProfile[c.user].userType,
                                verificationStatus |->
                                  userProfile[c.user].verificationStatus]]
          /\ currentView' = [currentView EXCEPT ![c.user] = "home"]
     ELSE /\ currentUser' = [currentUser EXCEPT ![c.user] = NewUser]
          /\ currentView' = [currentView EXCEPT ![c.user] = "register"]
  /\ calls' = return(c)
  /\ shown' = NoMessage
  /\ UNCHANGED <<storeVars, localRides, localRequests, localWallet, searchVars,
                 chatVars, regData, userProfile>>

\* the Login view is rendered while currentUser has no userType
loginRendered(u) == currentUser[u].userType = "" /\ currentView[u] = "login"

\* handleLogin of the Login view
handleLogin(u) ==
  /\ loginRendered(u)
  /\ IF currentUser[u] # NullUser /\ currentUser[u].userType # ""
     THEN /\ currentView' = [currentView EXCEPT ![u] = "home"]
          /\ shown' = showMessage(u, "handleLogin", "Successfully logged in!")
     ELSE /\ shown' = showMessage(u, "handleLogin", "Please register first.")
          /\ UNCHANGED currentView
  /\ UNCHANGED <<storeVars, localRides, localRequests, localWallet, searchVars,
                 calls, chatVars, regData, userProfile, currentUser>>

\* the "New User? Register" button of the Login view
openRegister(u) ==
  /\ loginRendered(u)
  /\ currentView' = [currentView EXCEPT ![u] = "register"]
  /\ shown' = NoMessage
  /\ UNCHANGED <<storeVars, localRides, localRequests, localWallet, searchVars,
                 calls, chatVars, regData, userProfile, currentUser>>

\* the wallet listener of the same user's application open in a second
\* window: it finds no wallet record and issues its own setDoc, which is not
\* awaited either. Of the second window only this write is modelled
OtherWindowInitWrite(u) == [kind |-> "initWallet", id |-> 1, user |-> u]

DeliverWalletOtherWindow(u) ==
  /\ ~walletDocs[u].exists
  /\ OtherWindowInitWrite(u) \notin pendingWrites
  /\ pendingWrites' = pendingWrites \cup {OtherWindowInitWrite(u)}
  /\ shown' = NoMessage
  /\ UNCHANGED <<rides, rideRequests, walletDocs, localRides, localRequests,
                 localWallet, searchVars, calls>>
  /\ UNCHANGED chatVars
  /\ UNCHANGED regVars

\* ------------------------------------------------------------------ wallet
\* parseFloat(amount): a number, or NaN (the empty field parses to NaN)
NaN == [nan |-> TRUE, val |-> 0]
Amounts == {NaN} \cup {[nan |-> FALSE, val |-> v] : v \in (0 - 1)..MaxAmount}

\* the amount field's onChange
setAmount(u, a) ==
  /\ amount[u] # a
  /\ amount' = [amount EXCEPT ![u] = a]
  /\ shown' = NoMessage
  /\ UNCHANGED <<storeVars, localRides, localRequests, localWallet, searchQuery,
                 filteredRides, calls>>
  /\ UNCHANGED chatVars
  /\ UNCHANGED regVars

handleAddFunds(u) ==
  LET depositAmount == amount[u]
  IN  /\ IF depositAmount.nan \/ depositAmount.val <= 0
         THEN /\ shown' = showMessage(u, "handleAddFunds", "Please enter a valid amount.")
              /\ UNCHANGED <<walletDocs, amount>>
         ELSE /\ localWallet[u] + depositAmount.val <= MaxBalance
              /\ IF walletDocs[u].exists
                 THEN /\ walletDocs' = [walletDocs EXCEPT ![u].balance =
                                          localWallet[u] + depositAmount.val]
                      /\ amount' = [amount EXCEPT ![u] = NaN]
                      /\ shown' = showMessage(u, "handleAddFunds", "Successfully added funds to your wallet.")
                 ELSE /\ UNCHANGED <<walletDocs, amount>>
                      /\ shown' = showMessage(u, "handleAddFunds", "Failed to add funds.")
      /\ UNCHANGED <<rides, rideRequests, pendingWrites, localRides, localRequests,
                     localWallet, searchQuery, filteredRides, calls>>
      /\ UNCHANGED chatVars
      /\ UNCHANGED regVars

\* handleWithdrawFunds without its second check
insufficientBalanceUnchecked(withdrawAmount, balance) == FALSE

\* handleWithdrawFunds' second check, off by one
insufficientBalanceOffByOne(withdrawAmount, balance) == withdrawAmount > balance + 1

\* handleWithdrawFunds' second check
insufficientBalance(withdrawAmount, balance) == withdrawAmount > balance

handleWithdrawFunds(u) ==
  LET withdrawAmount == amount[u]
  IN  /\ IF withdrawAmount.nan \/ withdrawAmount.val <= 0
         THEN /\ shown' = showMessage(u, "handleWithdrawFunds", "Please enter a valid amount.")
              /\ UNCHANGED <<walletDocs, amount>>
         ELSE IF insufficientBalance(withdrawAmount.val, localWallet[u])
         THEN /\ shown' = showMessage(u, "handleWithdrawFunds", "Insufficient balance.")
              /\ UNCHANGED <<walletDocs, amount>>
         ELSE IF walletDocs[u].exists
         THEN /\ walletDocs' = [walletDocs EXCEPT ![u].balance =
                                  localWallet[u] - withdrawAmount.val]
              /\ amount' = [amount EXCEPT ![u] = NaN]
              /\ shown' = showMessage(u, "handleWithdrawFunds", "Successfully withdrew funds from your wallet.")
         ELSE /\ UNCHANGED <<walletDocs, amount>>
              /\ shown' = showMessage(u, "handleWithdrawFunds", "Failed to withdraw funds.")
      /\ UNCHANGED <<rides, rideRequests, pendingWrites, localRides, localRequests,
                     localWallet, searchQuery, filteredRides, calls>>
      /\ UNCHANGED chatVars
      /\ UNCHANGED regVars

\* the onChange handlers of the search form's from and to fields
setSearchQuery(u, field, value) ==
  /\ searchQuery[u][field] # value
  /\ searchQuery' = [searchQuery EXCEPT ![u][field] = value]
  /\ shown' = NoMessage
  /\ UNCHANGED <<storeVars, localRides, localRequests, localWallet,
                 filteredRides, amount, calls>>
  /\ UNCHANGED chatVars
  /\ UNCHANGED regVars

\* the onChange handler of a route stop field of the search form
updateSearchRoutePoint(u, index, value) ==
  /\ index \in 1..Len(searchQuery[u].route)
  /\ searchQuery[u].route[index] # value
  /\ searchQuery' = [searchQuery EXCEPT ![u].route[index] = value]
  /\ shown' = NoMessage
  /\ UNCHANGED <<storeVars, localRides, localRequests, localWallet,
                 filteredRides, amount, calls>>
  /\ UNCHANGED chatVars
  /\ UNCHANGED regVars

\* the Search Rides button: handleSearch on the local rides and the criteria
SearchClick(u) ==
  /\ filteredRides' = [filteredRides EXCEPT ![u] = handleSearch(localRides[u], searchQuery[u])]
  /\ shown' = NoMessage
  /\ UNCHANGED <<storeVars, localRides, localRequests, localWallet,
                 searchQuery, amount, calls>>
  /\ UNCHANGED chatVars
  /\ UNCHANGED regVars

\* ----------------------------------------------------------- specification
\* the post-ride forms entered: one route, every seat count of the field
RideForms ==
  [from : {<<"a">>}, to : {<<"A">>}, startTime : {<<"9">>},
   availableSeats : 0..MaxSeats, pricePerSeat : {RidePrice},
   route : {<< <<>> >>}]

Init ==
  /\ rides = <<>>
  /\ rideRequests = <<>>
  /\ walletDocs = [u \in Users |-> [exists |-> FALSE, balance |-> 0]]
  /\ pendingWrites = {}
  /\ localRides = [u \in Users |-> <<>>]
  /\ localRequests = [u \in Users |-> <<>>]
  /\ localWallet = [u \in Users |-> 0]
  /\ searchQuery = [u \in Users |-> EmptyQuery]
  /\ filteredRides = [u \in Users |-> <<>>]
  /\ amount = [u \in Users |-> NaN]
  /\ calls = EmptyBag
  /\ shown = NoMessage
  /\ chatInit
  /\ regInit

\* The request lifecycle between a driver and a rider: posting, requesting,
\* accepting, rejecting and cancelling, with every listener's delivery.
LifeUsers == {"d1", "r1"}

Next ==
  \/ \E u \in LifeUsers : DeliverRides(u)
  \/ \E u \in LifeUsers : DeliverRequests(u)
  \/ \E u \in LifeUsers, form \in RideForms : handlePostRide(u, form)
  \/ \E u \in LifeUsers, rideId \in 1..MaxRides : requestRide(u, rideId)
  \/ \E u \in LifeUsers : AcceptClick(u)
  \/ \E c \in BagToSet(calls) : acceptGetRide(c)
  \/ \E c \in BagToSet(calls) : acceptUpdateRide(c)
  \/ \E u \in LifeUsers : RejectClick(u)
  \/ \E u \in LifeUsers : CancelClick(u)

Spec == Init /\ [][Next]_vars

\* Two riders requesting the rides of one driver, and the driver accepting.
NextAccept ==
  \/ \E u \in Users : DeliverRides(u)
  \/ \E u \in Users : DeliverRequests(u)
  \/ \E u \in Users, form \in RideForms : handlePostRide(u, form)
  \/ \E u \in Users, rideId \in 1..MaxRides : requestRide(u, rideId)
  \/ \E u \in Users : AcceptClick(u)
  \/ \E c \in BagToSet(calls) : acceptGetRide(c)
  \/ \E c \in BagToSet(calls) : acceptUpdateRide(c)

SpecAccept == Init /\ [][NextAccept]_vars

\* Requesting and cancelling: the driver posts, the rider requests and
\* cancels, with the two listeners' deliveries.
NextCancel ==
  \/ \E u \in LifeUsers : DeliverRides(u)
  \/ \E u \in LifeUsers : DeliverRequests(u)
  \/ \E form \in RideForms : handlePostRide("d1", form)
  \/ \E rideId \in 1..MaxRides : requestRide("r1", rideId)
  \/ CancelClick("r1")

SpecCancel == Init /\ [][NextCancel]_vars

\* Settlement and the wallets: a ride of d1 has a pending request of r1, and
\* the ride and request replicas are up to date (the state after posting,
\* requesting and the listeners' deliveries); the rider's wallet document
\* exists or is still to be initialised; the driver accepts and completes.
SettleRide ==
  newRide("d1", [from |-> <<"a">>, to |-> <<"A">>, startTime |-> <<"9">>,
                 availableSeats |-> MaxSeats, pricePerSeat |-> RidePrice,
                 route |-> << <<>> >>], 1)

InitSettle ==
  /\ rides = <<SettleRide>>
  /\ rideRequests = <<newRequest("r1", SettleRide, 1)>>
  /\ \E riderHasWallet \in BOOLEAN :
       walletDocs = [u \in Users |->
                       [exists |-> u = "d1" \/ (u = "r1" /\ riderHasWallet),
                        balance |-> 0]]
  /\ pendingWrites = {}
  /\ localRides = [u \in Users |-> IF u \in LifeUsers THEN fetchedRides(u) ELSE <<>>]
  /\ localRequests = [u \in Users |-> IF u \in LifeUsers THEN fetchedRequests(u) ELSE <<>>]
  /\ localWallet = [u \in Users |-> 0]
  /\ searchQuery = [u \in Users |-> EmptyQuery]
  /\ filteredRides = [u \in Users |->
                        IF u \in LifeUsers THEN handleSearch(fetchedRides(u), EmptyQuery)
                        ELSE <<>>]
  /\ amount = [u \in Users |-> NaN]
  /\ calls = EmptyBag
  /\ shown = NoMessage
  /\ chatInit
  /\ regInit

NextSettle ==
  \/ \E u \in LifeUsers : DeliverRequests(u)
  \/ \E u \in LifeUsers : DeliverWallet(u)
  \/ \E w \in pendingWrites : ApplyPendingWrite(w)
  \/ \E u \in LifeUsers : AcceptClick(u)
  \/ \E c \in BagToSet(calls) : acceptGetRide(c)
  \/ \E c \in BagToSet(calls) : acceptUpdateRide(c)
  \/ \E u \in LifeUsers : CompleteClick(u)
  \/ \E c \in BagToSet(calls) : completeGetDocs(c)
  \/ \E c \in BagToSet(calls) : completeCreditDriver(c)
  \/ \E c \in BagToSet(calls) : completeGetRiderWallet(c)
  \/ \E c \in BagToSet(calls) : completeDebitRider(c)

SpecSettle == InitSettle /\ [][NextSettle]_vars

\* The wallet view: a driver and a rider type amounts, deposit and withdraw.
NextWallet ==
  \/ \E u \in LifeUsers : DeliverWallet(u)
  \/ \E w \in pendingWrites : ApplyPendingWrite(w)
  \/ \E u \in LifeUsers, a \in Amounts : setAmount(u, a)
  \/ \E u \in LifeUsers : handleAddFunds(u)
  \/ \E u \in LifeUsers : handleWithdrawFunds(u)

SpecWallet == Init /\ [][NextWallet]_vars

\* Searching: the catalog holds a ride as handlePostRide stored it, whose from
\* is any string of the longest length and whose seat count is what the
\* accepts since have left; the rider's listener delivers it, and the rider
\* types criteria that hold no route stop (the stop field empty or blank) and
\* searches.
RECURSIVE StringsOfLen(_)
StringsOfLen(n) ==
  IF n = 0 THEN {<<>>}
  ELSE {Append(s, c) : s \in StringsOfLen(n - 1), c \in Letters}

SearchRideForms ==
  [from : StringsOfLen(MaxStrLen), to : {<<"A">>, <<"A", " ">>}, startTime : {<<"9">>},
   availableSeats : {0 - 1, 0, 1}, pricePerSeat : {RidePrice},
   route : {<< <<>> >>}]

InitSearch ==
  /\ \E form \in SearchRideForms : rides = <<newRide("d1", form, 1)>>
  /\ rideRequests = <<>>
  /\ walletDocs = [u \in Users |-> [exists |-> FALSE, balance |-> 0]]
  /\ pendingWrites = {}
  /\ localRides = [u \in Users |-> <<>>]
  /\ localRequests = [u \in Users |-> <<>>]
  /\ localWallet = [u \in Users |-> 0]
  /\ searchQuery = [u \in Users |-> EmptyQuery]
  /\ filteredRides = [u \in Users |-> <<>>]
  /\ amount = [u \in Users |-> NaN]
  /\ calls = EmptyBag
  /\ shown = NoMessage
  /\ chatInit
  /\ regInit

NextSearch ==
  \/ DeliverRides("r1")
  \/ \E value \in StringsUpTo(MaxStrLen) : setSearchQuery("r1", "from", value)
  \/ \E value \in {<<>>, <<"a">>, <<" ">>} : setSearchQuery("r1", "to", value)
  \/ \E value \in {<<>>, <<" ">>} : updateSearchRoutePoint("r1", 1, value)
  \/ SearchClick("r1")

SpecSearch == InitSearch /\ [][NextSearch]_vars

\* Messaging: a ride of d1 with a seat left has an accepted request of r1,
\* delivered to both; the rider opens the thread from the search results, both
\* open it from their chat lists, and both send messages.
ChatRide == [SettleRide EXCEPT !.availableSeats = MaxSeats]

InitChat ==
  /\ rides = <<ChatRide>>
  /\ rideRequests = <<[newRequest("r1", ChatRide, 1) EXCEPT !.status = "accepted"]>>
  /\ walletDocs = [u \in Users |-> [exists |-> FALSE, balance |-> 0]]
  /\ pendingWrites = {}
  /\ localRides = [u \in Users |-> IF u \in LifeUsers THEN fetchedRides(u) ELSE <<>>]
  /\ localRequests = [u \in Users |-> IF u \in LifeUsers THEN fetchedRequests(u) ELSE <<>>]
  /\ localWallet = [u \in Users |-> 0]
  /\ searchQuery = [u \in Users |-> EmptyQuery]
  /\ filteredRides = [u \in Users |->
                        IF u \in LifeUsers THEN handleSearch(fetchedRides(u), EmptyQuery)
                        ELSE <<>>]
  /\ amount = [u \in Users |-> NaN]
  /\ calls = EmptyBag
  /\ shown = NoMessage
  /\ chatInit
  /\ regInit

NextChat ==
  \/ \E u \in LifeUsers : DeliverMessages(u)
  \/ StartChatClick("r1")
  \/ \E c \in BagToSet(calls) : startGetDoc(c)
  \/ \E c \in BagToSet(calls) : startSetDoc(c)
  \/ \E u \in LifeUsers : selectChat(u)
  \/ \E u \in LifeUsers, text \in MessageTexts : sendMessage(u, text)
  \/ \E c \in BagToSet(calls) : sendGetDoc(c)
  \/ \E c \in BagToSet(calls) : sendWrite(c)
  \/ \E c \in BagToSet(calls) : startChatFails(c)
  \/ \E c \in BagToSet(calls) : sendMessageFails(c)

SpecChat == InitChat /\ [][NextChat]_vars

\* The chat list: the catalog holds a ride of d1 and any requests up to
\* MaxRequests: requests for the ride in the statuses requestRide, the driver
\* and the rider give them, and posted requests in status searching, with or
\* without a driver who initiated contact; every user's listeners deliver.
ChatRequests ==
  {[newRequest(r, ChatRide, 0) EXCEPT !.status = st] :
     r \in Riders, st \in {"pending", "accepted", "cancelled"}}
  \cup {[id |-> 0, rideId |-> 0, riderId |-> r, driverId |-> "-", price |-> 0,
         status |-> "searching", contactInitiatedBy |-> by] :
          r \in Riders, by \in {"-"} \cup Drivers}

RECURSIVE RequestCatalogs(_)
RequestCatalogs(n) ==
  IF n = 0 THEN {<<>>}
  ELSE LET shorter == RequestCatalogs(n - 1)
       IN  shorter \cup {Append(cat, [req EXCEPT !.id = Len(cat) + 1]) :
                           cat \in {k \in shorter : Len(k) = n - 1},
                           req \in ChatRequests}

InitChatList ==
  /\ rides = <<ChatRide>>
  /\ rideRequests \in RequestCatalogs(MaxRequests)
  /\ walletDocs = [u \in Users |-> [exists |-> FALSE, balance |-> 0]]
  /\ pendingWrites = {}
  /\ localRides = [u \in Users |-> <<>>]
  /\ localRequests = [u \in Users |-> <<>>]
  /\ localWallet = [u \in Users |-> 0]
  /\ searchQuery = [u \in Users |-> EmptyQuery]
  /\ filteredRides = [u \in Users |-> <<>>]
  /\ amount = [u \in Users |-> NaN]
  /\ calls = EmptyBag
  /\ shown = NoMessage
  /\ chatInit
  /\ regInit

NextChatList ==
  \/ \E u \in LifeUsers : DeliverRides(u)
  \/ \E u \in LifeUsers : DeliverRequests(u)
  \/ \E u \in LifeUsers : selectChat(u)

SpecChatList == InitChatList /\ [][NextChatList]_vars

\* Registration: a signed-in user without a profile is at the registration
\* view, fills the form a field at a time and clicks Register.
NewUsers == {"r1"}

InitRegister ==
  /\ rides = <<>>
  /\ rideRequests = <<>>
  /\ walletDocs = [u \in Users |-> [exists |-> FALSE, balance |-> 0]]
  /\ pendingWrites = {}
  /\ localRides = [u \in Users |-> <<>>]
  /\ localRequests = [u \in Users |-> <<>>]
  /\ localWallet = [u \in Users |-> 0]
  /\ searchQuery = [u \in Users |-> EmptyQuery]
  /\ filteredRides = [u \in Users |-> <<>>]
  /\ amount = [u \in Users |-> NaN]
  /\ calls = EmptyBag
  /\ shown = NoMessage
  /\ chatInit
  /\ regData = [u \in Users |-> EmptyRegData]
  /\ userProfile = [u \in Users |-> NoProfile]
  /\ currentUser = [u \in Users |-> NewUser]
  /\ currentView = [u \in Users |-> "register"]

NextRegister ==
  \/ \E u \in NewUsers, field \in {"name", "email", "phone"}, value \in RegTexts :
       setRegData(u, field, value)
  \/ \E u \in NewUsers, value \in {"driver", "rider"} : setRegData(u, "userType", value)
  \/ \E u \in NewUsers, field \in {"type", "color", "plate"}, value \in RegTexts :
       setRegVehicle(u, field, value)
  \/ \E u \in NewUsers : toggleUploaded(u)
  \/ \E u \in NewUsers : handleRegistration(u)
  \/ \E c \in BagToSet(calls) : registerSetDoc(c)
  \/ \E c \in BagToSet(calls) : registerFails(c)

SpecRegister == InitRegister /\ [][NextRegister]_vars

\* Sign-out and registration: a registered rider signs out, the sign-in with
\* the token of the same user id runs in the background, and the Login and
\* Registration views are used meanwhile.
NextAuth ==
  \/ \E u \in NewUsers : signOut(u)
  \/ \E c \in BagToSet(calls) : authSignedIn(c)
  \/ \E c \in BagToSet(calls) : authGetDoc(c)
  \/ \E u \in NewUsers : handleLogin(u)
  \/ \E u \in NewUsers : openRegister(u)
  \/ \E u \in NewUsers, field \in {"name", "email", "phone"}, value \in RegTexts :
       setRegData(u, field, value)
  \/ \E u \in NewUsers, value \in {"driver", "rider"} : setRegData(u, "userType", value)
  \/ \E u \in NewUsers, field \in {"type", "color", "plate"}, value \in RegTexts :
       setRegVehicle(u, field, value)
  \/ \E u \in NewUsers : toggleUploaded(u)
  \/ \E u \in NewUsers : handleRegistration(u)
  \/ \E c \in BagToSet(calls) : registerSetDoc(c)
  \/ \E c \in BagToSet(calls) : registerFails(c)

SpecAuth == Init /\ [][NextAuth]_vars

\* Posting rides: a driver and a rider submit the post-ride form with any of
\* the field values the inputs accept; the number inputs parse what is typed,
\* a negative number included.
PostRideForms ==
  [from : {<<>>, <<"a">>}, to : {<<>>, <<"A">>}, startTime : {<<>>, <<"9">>},
   availableSeats : {0 - 1, 0, 1}, pricePerSeat : {0 - RidePrice, 0, RidePrice},
   route : {<< <<>> >>, << <<" ">>, <<"a">> >>, << <<"a">>, <<>>, <<"A">> >>}]

NextPost ==
  \/ \E u \in LifeUsers : DeliverRides(u)
  \/ \E u \in LifeUsers, form \in PostRideForms : handlePostRide(u, form)

SpecPost == Init /\ [][NextPost]_vars

\* Deposits during settlement: the ride of d1 has an accepted request of r1,
\* both wallet records exist and every replica is up to date; the driver
\* completes the ride, once, while the rider types amounts and adds funds.
InitDeposit ==
  /\ rides = <<ChatRide>>
  /\ rideRequests = <<[newRequest("r1", ChatRide, 1) EXCEPT !.status = "accepted"]>>
  /\ walletDocs = [u \in Users |-> [exists |-> u \in LifeUsers, balance |-> 0]]
  /\ pendingWrites = {}
  /\ localRides = [u \in Users |-> IF u \in LifeUsers THEN fetchedRides(u) ELSE <<>>]
  /\ localRequests = [u \in Users |-> IF u \in LifeUsers THEN fetchedRequests(u) ELSE <<>>]
  /\ localWallet = [u \in Users |-> 0]
  /\ searchQuery = [u \in Users |-> EmptyQuery]
  /\ filteredRides = [u \in Users |->
                        IF u \in LifeUsers THEN handleSearch(fetchedRides(u), EmptyQuery)
                        ELSE <<>>]
  /\ amount = [u \in Users |-> NaN]
  /\ calls = EmptyBag
  /\ shown = NoMessage
  /\ chatInit
  /\ regInit

NextDeposit ==
  \/ DeliverWallet("r1")
  \/ \E a \in Amounts : setAmount("r1", a)
  \/ handleAddFunds("r1")
  \/ rides[1].status = "active" /\ CompleteClick("d1")
  \/ \E w \in pendingWrites : ApplyPendingWrite(w)
  \/ \E c \in BagToSet(calls) : completeGetDocs(c)
  \/ \E c \in BagToSet(calls) : completeCreditDriver(c)
  \/ \E c \in BagToSet(calls) : completeGetRiderWallet(c)
  \/ \E c \in BagToSet(calls) : completeDebitRider(c)

SpecDeposit == InitDeposit /\ [][NextDeposit]_vars

\* The wallet with the application open in two windows of the rider.
NextWindows ==
  \/ DeliverWallet("r1")
  \/ DeliverWalletOtherWindow("r1")
  \/ \E w \in pendingWrites : ApplyPendingWrite(w)
  \/ \E a \in Amounts : setAmount("r1", a)
  \/ handleAddFunds("r1")
  \/ handleWithdrawFunds("r1")

SpecWindows == Init /\ [][NextWindows]_vars

\* Requests around a completed ride: the driver accepts the request of r1 and
\* completes the ride once, while a second rider receives the rides, searches
\* and requests the ride.
NextCompleted ==
  \/ DeliverRequests("d1")
  \/ DeliverRides("r2")
  \/ SearchClick("r2")
  \/ \E rideId \in 1..MaxRides : requestRide("r2", rideId)
  \/ \E w \in pendingWrites : ApplyPendingWrite(w)
  \/ AcceptClick("d1")
  \/ \E c \in BagToSet(calls) : acceptGetRide(c)
  \/ \E c \in BagToSet(calls) : acceptUpdateRide(c)
  \/ rides[1].status = "active" /\ CompleteClick("d1")
  \/ \E c \in BagToSet(calls) : completeGetDocs(c)
  \/ \E c \in BagToSet(calls) : completeCreditDriver(c)
  \/ \E c \in BagToSet(calls) : completeGetRiderWallet(c)
  \/ \E c \in BagToSet(calls) : completeDebitRider(c)

SpecCompleted == InitSettle /\ [][NextCompleted]_vars

\* Route overlap: the catalog holds a ride record whose route is any list of
\* up to two points, or no list at all; the rider's search form holds any
\* list of up to two stops and no from or to; the rider's listener delivers
\* the ride and the rider searches.
RoutesOf(points) ==
  {<<>>} \cup {<<p>> : p \in points} \cup {<<p, q>> : p \in points, q \in points}

StoredRoutes == RoutesOf(StringsUpTo(MaxStrLen)) \cup {NotAnArray}
SearchRoutes == RoutesOf(StringsUpTo(MaxStopLen))

InitOverlap ==
  /\ \E route \in StoredRoutes : rides = <<[SettleRide EXCEPT !.route = route]>>
  /\ \E route \in SearchRoutes :
       searchQuery = [u \in Users |->
                        IF u = "r1" THEN [EmptyQuery EXCEPT !.route = route]
                        ELSE EmptyQuery]
  /\ rideRequests = <<>>
  /\ walletDocs = [u \in Users |-> [exists |-> FALSE, balance |-> 0]]
  /\ pendingWrites = {}
  /\ localRides = [u \in Users |-> <<>>]
  /\ localRequests = [u \in Users |-> <<>>]
  /\ localWallet = [u \in Users |-> 0]
  /\ filteredRides = [u \in Users |-> <<>>]
  /\ amount = [u \in Users |-> NaN]
  /\ calls = EmptyBag
  /\ shown = NoMessage
  /\ chatInit
  /\ regInit

NextOverlap ==
  \/ DeliverRides("r1")
  \/ SearchClick("r1")

SpecOverlap == InitOverlap /\ [][NextOverlap]_vars

\* ------------------------------------------------------------------ claims
\* the call c left the bag of suspended calls, or moved on, in this step
stepped(c) == CopiesIn(c, calls') < CopiesIn(c, calls)
\* the call c returned in this step
ended(c) == stepped(c) /\ BagCardinality(calls') < BagCardinality(calls)

pendingFor(rider, rideId) ==
  {q \in 1..Len(rideRequests) :
     /\ rideRequests[q].riderId = rider
     /\ rideRequests[q].rideId = rideId
     /\ rideRequests[q].status = "pending"}

\* C1: a rider never has two pending requests for the same ride in the store:
\* a requestRide issued while the rider's first request for the ride is
\* pending creates nothing, delivered snapshot or not.
C1_NoDuplicatePending ==
  \A rider \in Riders, rideId \in 1..MaxRides :
    Cardinality(pendingFor(rider, rideId)) <= 1

\* C2: with no acceptRequest in flight, a ride that has an accepted request
\* and no seat left, and a second request pending on it: no step sets that
\* second request to accepted.
C2_SecondAcceptRejected ==
  [][\A q \in 1..Len(rideRequests) :
       ( /\ calls = EmptyBag
         /\ rideRequests[q].status = "pending"
         /\ rides[rideRequests[q].rideId].availableSeats <= 0
         /\ \E p \in 1..Len(rideRequests) :
              /\ p # q
              /\ rideRequests[p].rideId = rideRequests[q].rideId
              /\ rideRequests[p].status = "accepted" )
       => rideRequests'[q].status # "accepted"]_vars

\* C3: every ride's availableSeats is >= 0 in every reachable state.
C3_SeatsNonNegative ==
  \A i \in 1..Len(rides) : rides[i].availableSeats >= 0

\* C4: completeRide moves price from the rider to the driver: the write to
\* the driver's wallet raises its stored balance by price, and a call that
\* reports success has just lowered the rider's stored balance by price.
C4_CompleteMovesPrice ==
  [][\A c \in BagToSet(calls) :
       /\ (c.op = "completeRide" /\ c.pc = "creditDriver" /\ stepped(c))
          => walletDocs'[c.user].balance = walletDocs[c.user].balance + c.price
       /\ ( /\ c.op = "completeRide" /\ ended(c)
            /\ shown'.msg = "Ride marked as completed and payment processed!" )
          => walletDocs'[c.riderId].balance = walletDocs[c.riderId].balance - c.price
    ]_vars

\* C5: a withdraw whose amount is not a number, is <= 0, or is greater than
\* the balance of the wallet view (the local wallet the handler compares it
\* with) fails: it shows the validation or the insufficient-balance message
\* and leaves every stored wallet unchanged.
C5_WithdrawFailureKeepsBalance ==
  [][\A u \in Users :
       (shown'.op = "handleWithdrawFunds" /\ shown'.user = u)
       => /\ (amount[u].nan \/ amount[u].val <= 0)
             => /\ shown'.msg = "Please enter a valid amount."
                /\ walletDocs' = walletDocs
          /\ (~amount[u].nan /\ amount[u].val > 0 /\ amount[u].val > localWallet[u])
             => /\ shown'.msg = "Insufficient balance."
                /\ walletDocs' = walletDocs
    ]_vars

\* C5 witness: a user with a stored balance was just refused a withdrawal
\* for insufficient balance.
C5_Witness ==
  \E u \in Users :
    /\ shown = showMessage(u, "handleWithdrawFunds", "Insufficient balance.")
    /\ walletDocs[u].exists
    /\ walletDocs[u].balance > 0
    /\ amount[u].val > localWallet[u]

\* C6: a request's stored status becomes cancelled only from pending.
C6_CancelOnlyFromPending ==
  [][\A q \in 1..Len(rideRequests) :
       (rideRequests'[q].status = "cancelled" /\ rideRequests[q].status # "cancelled")
       => rideRequests[q].status = "pending"]_vars

\* C7: once a request's stored status is rejected, completed or cancelled,
\* no step changes it.
C7_TerminalIsFinal ==
  [][\A q \in 1..Len(rideRequests) :
       rideRequests[q].status \in {"rejected", "completed", "cancelled"}
       => rideRequests'[q].status = rideRequests[q].status]_vars

\* C8: the seat write of every acceptRequest lowers the ride's stored
\* availableSeats by exactly 1, overlapping accepts included.
C8_AcceptLowersSeatsByOne ==
  [][\A c \in BagToSet(calls) :
       (c.op = "acceptRequest" /\ c.pc = "updateRide" /\ stepped(c))
       => rides'[c.rideId].availableSeats = rides[c.rideId].availableSeats - 1
    ]_vars

\* C9: when completeRide reports success the ride is completed in the store
\* and no request of that ride and rider is left accepted there.
C9_SuccessMeansCompleted ==
  [][\A c \in BagToSet(calls) :
       ( /\ c.op = "completeRide" /\ ended(c)
         /\ shown'.msg = "Ride marked as completed and payment processed!" )
       => /\ rides'[c.rideId].status = "completed"
          /\ \A q \in 1..Len(rideRequests') :
               (rideRequests'[q].rideId = c.rideId /\ rideRequests'[q].riderId = c.riderId)
               => rideRequests'[q].status # "accepted"
    ]_vars

\* the condition the claim gives for a search without route stops
inSearchResult(ride, query) ==
  /\ query.from = <<>> \/ includes(toLowerCase(ride.from), toLowerCase(query.from))
  /\ query.to = <<>> \/ includes(toLowerCase(ride.to), toLowerCase(query.to))
  /\ ride.availableSeats > 0

TorontoDowntown ==
  <<"T","o","r","o","n","t","o"," ","D","o","w","n","t","o","w","n">>
Mississauga == <<"M","i","s","s","i","s","s","a","u","g","a">>
Downtown == <<"D","o","w","n","t","o","w","n">>
ExampleRide ==
  newRide("d1", [from |-> TorontoDowntown, to |-> Mississauga,
                 startTime |-> <<"9">>, availableSeats |-> 2,
                 pricePerSeat |-> 15, route |-> << <<>> >>], 1)
ExampleQuery == [from |-> Downtown, to |-> Mississauga, route |-> << <<>> >>]

\* C10: for criteria without route stops, the rides handleSearch returns for
\* the local rides are exactly those whose from and to contain the criteria's
\* from and to (each empty, or a case-insensitive substring) and that have a
\* seat left, and the list a search has just stored is that result; the
\* Toronto Downtown ride is returned for the search Downtown, Mississauga.
C10_SearchResult ==
  /\ \A u \in Users :
       filterNonBlank(searchQuery[u].route) = <<>>
       => LET result == handleSearch(localRides[u], searchQuery[u])
          IN  \A i \in 1..Len(localRides[u]) :
                (\E j \in 1..Len(result) : result[j] = localRides[u][i])
                <=> inSearchResult(localRides[u][i], searchQuery[u])
  /\ handleSearch(<<ExampleRide>>, ExampleQuery) = <<ExampleRide>>

\* C10 witness: a search has stored a result holding a ride whose from holds
\* the criteria's from only when letter case is ignored, with a to criterion
\* given as well.
C10_Witness ==
  /\ filteredRides["r1"] = handleSearch(localRides["r1"], searchQuery["r1"])
  /\ \E j \in 1..Len(filteredRides["r1"]) :
       /\ searchQuery["r1"].from # <<>>
       /\ searchQuery["r1"].to # <<>>
       /\ ~includes(filteredRides["r1"][j].from, searchQuery["r1"].from)
       /\ Len(searchQuery["r1"].from) < Len(filteredRides["r1"][j].from)

\* the arguments of checkRouteOverlap that the catalog and the search form hold
routeA == rides[1].route
routeB == searchQuery["r1"].route

\* a string in upper case, over the letters of the model
toUpperCase(str) == [i \in 1..Len(str) |-> IF str[i] = "a" THEN "A" ELSE str[i]]

\* the routes got from a list by changing the letter case of one point
caseChanged(route) ==
  IF ~isArray(route) THEN {route}
  ELSE {[route EXCEPT ![i] = toLowerCase(route[i])] : i \in 1..Len(route)}
       \cup {[route EXCEPT ![i] = toUpperCase(route[i])] : i \in 1..Len(route)}

\* C11: checkRouteOverlap(A, B) = checkRouteOverlap(B, A) for all routes A
\* and B, empty lists included.
C11_OverlapSymmetric ==
  checkRouteOverlap(routeA, routeB) = checkRouteOverlap(routeB, routeA)

\* C11 witness: a search was run on two routes that overlap only because a
\* point of the search holds a point of the ride, not the other way round.
C11_Witness ==
  /\ isArray(routeA) /\ routeA # <<>> /\ routeB # <<>>
  /\ checkRouteOverlap(routeA, routeB)
  /\ \A i \in 1..Len(routeA) : \A j \in 1..Len(routeB) :
       ~includes(toLowerCase(routeA[i]), toLowerCase(routeB[j]))
  /\ filteredRides["r1"] # <<>>

DowntownPlaza ==
  <<"d","o","w","n","t","o","w","n"," ","p","l","a","z","a">>

\* C12: changing the letter case of points of A or of B does not change
\* checkRouteOverlap(A, B); checkRouteOverlap(["Downtown"], ["downtown plaza"])
\* is true.
C12_OverlapIgnoresCase ==
  /\ \A r \in caseChanged(routeA) :
       checkRouteOverlap(r, routeB) = checkRouteOverlap(routeA, routeB)
  /\ \A t \in caseChanged(routeB) :
       /\ checkRouteOverlap(routeA, t) = checkRouteOverlap(routeA, routeB)
       /\ checkRouteOverlap(t, routeA) = checkRouteOverlap(routeB, routeA)
  /\ checkRouteOverlap(<<Downtown>>, <<DowntownPlaza>>)

\* C12 witness: a search found a ride whose route overlaps the search's only
\* when letter case is ignored.
C12_Witness ==
  /\ isArray(routeA)
  /\ checkRouteOverlap(routeA, routeB)
  /\ \A i \in 1..Len(routeA) : \A j \in 1..Len(routeB) :
       ~includes(routeA[i], routeB[j]) /\ ~includes(routeB[j], routeA[i])
  /\ filteredRides["r1"] # <<>>

\* a is a substring of b or b of a, after lower-casing
pointsOverlap(a, b) ==
  \/ includes(toLowerCase(b), toLowerCase(a))
  \/ includes(toLowerCase(a), toLowerCase(b))

\* C13: checkRouteOverlap(A, B) is true iff A and B are lists and some pair
\* (a in A, b in B) has a a substring of b or b a substring of a after
\* lower-casing; so it is false when A or B is empty or not a list.
C13_OverlapIffPair ==
  /\ checkRouteOverlap(routeA, routeB)
     <=> /\ isArray(routeA) /\ isArray(routeB)
         /\ \E i \in 1..Len(routeA) : \E j \in 1..Len(routeB) :
              pointsOverlap(routeA[i], routeB[j])
  /\ (~isArray(routeA) \/ routeA = <<>> \/ routeB = <<>>)
     => /\ ~checkRouteOverlap(routeA, routeB)
        /\ ~checkRouteOverlap(routeB, routeA)

\* C13 witness: a search with a stop was run on a delivered ride record that
\* has no route list, and found nothing.
C13_Witness ==
  /\ ~isArray(routeA)
  /\ filterNonBlank(routeB) # <<>>
  /\ \E j \in 1..Len(routeB) : routeB[j] = <<>>
  /\ localRides["r1"] # <<>>
  /\ filteredRides["r1"] = <<>>

\* a sequence without its element at index j
without(seq, j) == SubSeq(seq, 1, j - 1) \o SubSeq(seq, j + 1, Len(seq))

\* a local request in status cancelled counts in no active filter of its user
cancelledIsInactive(u) ==
  \A j \in 1..Len(localRequests[u]) :
    localRequests[u][j].status = "cancelled"
    => /\ \A rideId \in 1..MaxRides :
            existingRequestIn(localRequests[u], u, rideId)
            = existingRequestIn(without(localRequests[u], j), u, rideId)
       /\ chatListOf(u, localRides[u], localRequests[u])
          = chatListOf(u, localRides[u], without(localRequests[u], j))

\* C14: a cancelRequest on a request shown as pending stores the status
\* cancelled and changes no other request; a cancelled request is not matched
\* by requestRide's duplicate guard and gives no chat-list entry.
C14_CancelledIsInactive ==
  [][ /\ \A u \in Users :
           shown' = showMessage(u, "cancelRequest", "Ride request cancelled.")
           => \E q \in 1..Len(rideRequests) :
                /\ rideRequests[q].riderId = u
                /\ rideRequests' = [rideRequests EXCEPT ![q].status = "cancelled"]
      /\ \A u \in Users : cancelledIsInactive(u)'
    ]_vars

\* C14 witness: a rider who cancelled a pending request for a ride has
\* requested the same ride again.
C14_Witness ==
  \E p \in 1..Len(rideRequests), q \in 1..Len(rideRequests) :
    /\ rideRequests[p].riderId = rideRequests[q].riderId
    /\ rideRequests[p].rideId = rideRequests[q].rideId
    /\ rideRequests[p].status = "cancelled"
    /\ rideRequests[q].status = "pending"
    /\ p < q
    /\ \E j \in 1..Len(localRequests["r1"]) : localRequests["r1"][j].status = "cancelled"

\* C15: a thread's stored message list is append-only: every step leaves the
\* messages it held in the list, in their order.
C15_ThreadAppendOnly ==
  [][\A id \in ChatIds :
       /\ Len(threads'[id].messages) >= Len(threads[id].messages)
       /\ SubSeq(threads'[id].messages, 1, Len(threads[id].messages))
          = threads[id].messages
    ]_vars

\* the threads a user may have open: those of a ride and a rider, for the
\* rider and for the ride's driver
pairThreads(u) ==
  {rideChatId(rides[i].id, r) : i \in 1..Len(rides), r \in Riders}

\* C16: every thread that startChat or the chat list opens for a ride and a
\* rider has the id derived from the ride id and the rider id, and startChat
\* never writes a thread record over an existing one.
C16_OneThreadPerPair ==
  [][ /\ \A u \in Users :
           activeChat'[u] # NoChat
           => /\ activeChat'[u].id \in pairThreads(u)
              /\ u \in {activeChat'[u].id.riderId,
                        rides[activeChat'[u].id.rideId].driverId}
      /\ \A c \in BagToSet(calls) :
           (c.op = "startChat" /\ c.pc = "setDoc" /\ threads'[c.chat.id] # threads[c.chat.id])
           => ~threads[c.chat.id].exists
    ]_vars

\* the local requests of a user that are accepted requests on a local ride of
\* the user as driver, as pairs of ride index and request index
driverAccepted(u) ==
  {<<i, j>> \in (1..Len(localRides[u])) \X (1..Len(localRequests[u])) :
     /\ userType(u) = "driver"
     /\ localRides[u][i].driverId = u
     /\ localRequests[u][j].rideId = localRides[u][i].id
     /\ localRequests[u][j].status = "accepted"}

\* the accepted local requests a rider holds
riderAccepted(u) ==
  {j \in 1..Len(localRequests[u]) :
     /\ userType(u) = "rider"
     /\ localRequests[u][j].riderId = u
     /\ localRequests[u][j].status = "accepted"}

\* those of them whose ride is in the local rides
riderAcceptedWithRide(u) ==
  {j \in riderAccepted(u) :
     \E i \in 1..Len(localRides[u]) : localRides[u][i].id = localRequests[u][j].rideId}

\* the local requests in status searching on which the user initiated contact
contacted(u) ==
  {j \in 1..Len(localRequests[u]) :
     /\ localRequests[u][j].status = "searching"
     /\ localRequests[u][j].contactInitiatedBy = u}

\* the chat list holds an entry with this thread id and partner
hasEntry(u, chatId, partnerId) ==
  \E k \in 1..Len(chatList(u)) : chatList(u)[k] = chatEntry(chatId, partnerId)

\* C17 as stated: the chat list has exactly one entry per accepted request on
\* each ride of the driver, per accepted request the rider holds, and per
\* searching request the user contacted, and no other entry.
C17_ChatListAsStated ==
  \A u \in Users :
    Len(chatList(u)) = Cardinality(driverAccepted(u))
                       + Cardinality(riderAccepted(u))
                       + Cardinality(contacted(u))

\* C17 amended: the same, where a rider's accepted request counts only when
\* its ride is in the rider's local rides; and every counted request has its
\* entry, with the thread id of its ride and rider and the other party as
\* partner.
C17_ChatListDerived ==
  \A u \in Users :
    /\ Len(chatList(u)) = Cardinality(driverAccepted(u))
                          + Cardinality(riderAcceptedWithRide(u))
                          + Cardinality(contacted(u))
    /\ \A p \in driverAccepted(u) :
         hasEntry(u, rideChatId(localRides[u][p[1]].id, localRequests[u][p[2]].riderId),
                  localRequests[u][p[2]].riderId)
    /\ \A j \in riderAcceptedWithRide(u) :
         hasEntry(u, rideChatId(localRequests[u][j].rideId, u),
                  localRequests[u][j].driverId)
    /\ \A j \in contacted(u) :
         hasEntry(u, contactChatId(u, localRequests[u][j].riderId),
                  localRequests[u][j].riderId)

\* C17 witness: the driver's chat list holds the entry of an accepted request
\* and the entry of a searching request the driver contacted, the driver has
\* opened one of them, and the rider's accepted request has its entry because
\* its ride is in the rider's view.
C17_Witness ==
  /\ Cardinality(driverAccepted("d1")) = 1
  /\ Cardinality(contacted("d1")) = 1
  /\ Len(chatList("d1")) = 2
  /\ activeChat["d1"] # NoChat
  /\ riderAcceptedWithRide("r1") # {}
  /\ Len(chatList("r1")) = Cardinality(riderAccepted("r1"))

\* C18: whenever a user's local view of the rides, the ride requests, the
\* wallet or the messages changes in a step, its new value is the content of
\* the store's snapshot for that user (for the messages, the threads whose
\* participants include the user; for a missing wallet, balance 0).
C18_ViewsOnlyReplaced ==
  [][\A u \in Users :
       /\ localRides'[u] # localRides[u] => localRides'[u] = fetchedRides(u)'
       /\ localRequests'[u] # localRequests[u] => localRequests'[u] = fetchedRequests(u)'
       /\ localWallet'[u] # localWallet[u]
          => localWallet'[u] = IF walletDocs'[u].exists THEN walletDocs'[u].balance ELSE 0
       /\ localMessages'[u] # localMessages[u] => localMessages'[u] = fetchedMessages(u)'
    ]_vars

\* the startChat call c ended in this step without opening its thread
failedStartChat(c) ==
  c.op = "startChat" /\ ended(c) /\ activeChat'[c.user] # c.chat

\* the sendMessage call c ended in this step without writing its message
failedSendMessage(c) ==
  c.op = "sendMessage" /\ ended(c) /\ threads' = threads

\* C19: a step in which a startChat or a sendMessage call ends because its
\* store operation failed shows a notification to the caller.
C19_FailureShown ==
  [][\A c \in BagToSet(calls) :
       (failedStartChat(c) \/ failedSendMessage(c))
       => (shown' # NoMessage /\ shown'.user = c.user)
    ]_vars

\* the form passes: every required field is filled and the role's documents
\* are given
registrationValid(rd) ==
  /\ rd.name # <<>> /\ rd.email # <<>> /\ rd.phone # <<>>
  /\ rd.userType \in {"driver", "rider"}
  /\ rd.userType = "driver"
     => /\ rd.vehicle.type # <<>> /\ rd.vehicle.color # <<>> /\ rd.vehicle.plate # <<>>
        /\ rd.licenseUploaded
  /\ rd.userType = "rider" => rd.idUploaded

ValidationMessages ==
  {"Please fill in all required fields.",
   "Please provide all vehicle details and upload your driver's license.",
   "Please upload a valid ID."}

\* a register call of user u was issued in this step
registerIssued(u) ==
  \E c \in BagToSet(calls') :
    c.op = "register" /\ c.user = u /\ CopiesIn(c, calls') > CopiesIn(c, calls)

\* C20: a click on Register that issues no write shows a validation
\* notification and changes neither the profile nor the view, and the
\* notification is shown only for a form that does not pass; a write is
\* issued only
\* for a form that passes, with the form's fields; and every write of a
\* profile stores them with verificationStatus pending and opens the home view.
C20_RegisterValidated ==
  [][/\ UNCHANGED <<regData, calls>>
        => (shown'.msg \in ValidationMessages /\ UNCHANGED <<userProfile, currentView>>)
     /\ \A u \in Users :
       /\ (shown'.user = u /\ shown'.msg \in ValidationMessages)
          => (~registrationValid(regData[u]) /\ UNCHANGED <<userProfile, calls, currentView>>)
       /\ registerIssued(u)
          => /\ registrationValid(regData[u])
             /\ \A c \in BagToSet(calls') :
                  (c.op = "register" /\ c.user = u
                   /\ CopiesIn(c, calls') > CopiesIn(c, calls))
                  => c.profile = profileOf(regData[u])
       /\ userProfile'[u] # userProfile[u]
          => /\ \E c \in BagToSet(calls) :
                  c.op = "register" /\ c.user = u /\ ended(c) /\ userProfile'[u] = c.profile
             /\ userProfile'[u].exists
             /\ userProfile'[u].verificationStatus = "pending"
             /\ userProfile'[u].name # <<>> /\ userProfile'[u].email # <<>>
             /\ userProfile'[u].phone # <<>>
             /\ userProfile'[u].userType \in {"driver", "rider"}
             /\ userProfile'[u].userType = "driver"
                => /\ userProfile'[u].vehicle.type # <<>>
                   /\ userProfile'[u].vehicle.color # <<>>
                   /\ userProfile'[u].vehicle.plate # <<>>
             /\ currentView'[u] = "home"
             /\ currentUser'[u].userType = userProfile'[u].userType
    ]_vars

\* C20 witness: a driver's registration was stored and the home view opened,
\* the success notification being shown.
C20_Witness ==
  /\ userProfile["r1"].exists
  /\ userProfile["r1"].userType = "driver"
  /\ userProfile["r1"].verificationStatus = "pending"
  /\ currentView["r1"] = "home"
  /\ shown.msg = "Registration successful! Your profile is pending verification."

\* C21: once a profile exists in the store for a user id, no step changes the
\* role stored in it.
C21_RoleFixed ==
  [][\A u \in Users :
       userProfile[u].exists
       => (userProfile'[u].exists /\ userProfile'[u].userType = userProfile[u].userType)
    ]_vars

\* the ride added in this step, when one was
addedRide == rides'[Len(rides')]

\* C22: a step adds a ride only for a driver with from and to filled, at least
\* one seat and a positive price; the added ride is active and its route is
\* from, the non-blank stops, to; and a handlePostRide that adds nothing shows
\* its validation or permission notification.
C22_PostRideValidated ==
  [][/\ Len(rides') > Len(rides)
        => /\ userType(addedRide.driverId) = "driver"
           /\ addedRide.from # <<>> /\ addedRide.to # <<>>
           /\ addedRide.availableSeats >= 1
           /\ addedRide.pricePerSeat > 0
           /\ addedRide.status = "active"
           /\ Head(addedRide.route) = addedRide.from
           /\ addedRide.route[Len(addedRide.route)] = addedRide.to
           /\ \A i \in 2..(Len(addedRide.route) - 1) : trimTruthy(addedRide.route[i])
     /\ (shown'.op = "handlePostRide" /\ rides' = rides)
        => shown'.msg \in {"Please fill in all required ride details.",
                           "Only drivers can post rides."}
    ]_vars

\* the request created in this step, when one was
createdRequest == rideRequests'[Len(rideRequests')]

\* C23: a step creates a request only for a rider and a ride that is in the
\* store with availableSeats > 0 at that time; the request is pending and
\* carries the ride's id, driverId and pricePerSeat; and a requestRide that
\* shows another notification than success creates nothing.
C23_RequestRideValidated ==
  [][/\ Len(rideRequests') > Len(rideRequests)
        => /\ userType(createdRequest.riderId) = "rider"
           /\ createdRequest.rideId \in 1..Len(rides)
           /\ rides[createdRequest.rideId].availableSeats > 0
           /\ createdRequest.status = "pending"
           /\ createdRequest.driverId = rides[createdRequest.rideId].driverId
           /\ createdRequest.price = rides[createdRequest.rideId].pricePerSeat
     /\ (shown'.op = "requestRide"
         /\ shown'.msg # "Ride request sent successfully! Driver will be notified.")
        => rideRequests' = rideRequests
    ]_vars

\* C24: a handleAddFunds that reports success leaves the stored balance at
\* its value before the step plus the amount; one with an amount that is not
\* a number or not positive leaves the stored balance unchanged.
C24_DepositAdds ==
  [][\A u \in Users :
       (shown'.op = "handleAddFunds" /\ shown'.user = u)
       => /\ shown'.msg = "Successfully added funds to your wallet."
             => walletDocs'[u].balance = walletDocs[u].balance + amount[u].val
          /\ (amount[u].nan \/ amount[u].val <= 0) => walletDocs' = walletDocs
    ]_vars

\* C25: a step that applies a lazy initialization to a user whose wallet
\* record exists leaves the record as it is.
C25_InitNeverOverwrites ==
  [][\A w \in pendingWrites \ pendingWrites' :
       (w.kind = "initWallet" /\ walletDocs[w.user].exists)
       => walletDocs'[w.user] = walletDocs[w.user]
    ]_vars

\* the requests whose status becomes accepted in this step
acceptedNow ==
  {q \in 1..Len(rideRequests) :
     rideRequests[q].status # "accepted" /\ rideRequests'[q].status = "accepted"}

\* C26: no step creates a request for a ride whose stored status is completed,
\* none accepts a request bound to such a ride, and no search result that a
\* step computes holds such a ride.
C26_NothingOnCompletedRide ==
  [][/\ Len(rideRequests') > Len(rideRequests)
        => rides[createdRequest.rideId].status # "completed"
     /\ \A q \in acceptedNow : rides[rideRequests[q].rideId].status # "completed"
     /\ \A u \in Users :
          filteredRides'[u] # filteredRides[u]
          => \A i \in 1..Len(filteredRides'[u]) :
               rides[filteredRides'[u][i].id].status # "completed"
    ]_vars

\* the stored balances of the driver and the rider of a completeRide call
walletSum(c) == walletDocs[c.user].balance + walletDocs[c.riderId].balance

\* C27: completeRide conserves money. The call's write to the driver's wallet
\* adds price to the sum of the two stored balances, so the sum is the same
\* after a call that reports success as before it only when the step that
\* reports success takes price off the sum again: the rider's record exists
\* and is debited price.
C27_CompleteConservesMoney ==
  [][\A c \in BagToSet(calls) :
       ( /\ c.op = "completeRide" /\ ended(c)
         /\ shown'.msg = "Ride marked as completed and payment processed!" )
       => /\ walletDocs'[c.riderId].exists
          /\ walletSum(c)' = walletSum(c) - c.price
    ]_vars

\* the requests of a rider that were accepted: those a driver can have
\* completed
chargeable(rider) ==
  {q \in 1..Len(rideRequests) :
     /\ rideRequests[q].riderId = rider
     /\ rideRequests[q].status \in {"accepted", "completed"}}

\* the requests on a driver's rides that were accepted
payable(driver) ==
  {q \in 1..Len(rideRequests) :
     /\ rideRequests[q].driverId = driver
     /\ rideRequests[q].status \in {"accepted", "completed"}}

\* C28: a rider is charged at most once per accepted request. Every wallet
\* starts at balance 0 and only completeRide moves money, so the rider's stored
\* balance never falls more than price below 0 for each accepted request of
\* the rider, and the driver's never rises more than price for each.
C28_ChargedOncePerRequest ==
  /\ \A rider \in Riders :
       walletDocs[rider].balance >= 0 - RidePrice * Cardinality(chargeable(rider))
  /\ \A driver \in Drivers :
       walletDocs[driver].balance <= RidePrice * Cardinality(payable(driver))

\* C29: the step in which a sendMessage call succeeds (its write returned and
\* the local messages were set) leaves the sender's local view of the thread
\* with the message just sent as its last element, whether the thread existed
\* or the call created it.
C29_SentMessageShown ==
  [][\A c \in BagToSet(calls) :
       (c.op = "sendMessage" /\ c.pc = "write" /\ ended(c) /\ shown' = NoMessage)
       => LET view == localMessages'[c.user][c.chat.id].messages
          IN  /\ localMessages'[c.user][c.chat.id].present
              /\ Len(view) > 0
              /\ view[Len(view)] = c.message
    ]_vars

\* C30: withdraw never stores a negative balance: a handleWithdrawFunds step
\* of a user whose local wallet replica is non-negative, for any entered
\* amount, either leaves the stored wallets as they are or writes the replica's
\* balance less the amount, which is >= 0.
C30_WithdrawNeverNegative ==
  [][\A u \in Users :
       (shown'.op = "handleWithdrawFunds" /\ shown'.user = u /\ localWallet[u] >= 0)
       => \/ walletDocs' = walletDocs
          \/ /\ walletDocs'[u].balance = localWallet[u] - amount[u].val
             /\ walletDocs'[u].balance >= 0
    ]_vars

\* C30 witness: a user has just withdrawn the whole balance of the wallet
\* view, and the stored balance is 0.
C30_Witness ==
  \E u \in Users :
    /\ shown = showMessage(u, "handleWithdrawFunds", "Successfully withdrew funds from your wallet.")
    /\ localWallet[u] > 0
    /\ walletDocs[u].exists
    /\ walletDocs[u].balance = 0

====
